---- MODULE Spec2Model ----
(***************************************************************************)
(* Model of the transcript acquisition core of nate-alyzer-tool:           *)
(*   youtube_fetcher_module/youtube_fetcher/client.py  (YouTubeFetcher)    *)
(*   ingest_videos.py                                  (fetch_transcript_en)*)
(* Python strings are TLA+ strings; Optional values, exceptions and other  *)
(* Python values are tagged records [tag, val].                            *)
(***************************************************************************)
EXTENDS Naturals, Integers, Sequences, FiniteSets, TLC

VARIABLES
    pc,            \* position of the call: idle, date, ladder, done for get_transcript;
                   \* i_idle, i_date, i_layer, i_direct, i_exhausted, i_done for
                   \* fetch_transcript_en
    video_url,     \* argument video_url
    cookies_path,  \* argument cookies_path (None or a str)
    video_id,      \* local video_id
    publish_date,  \* local publish_date
    idx,           \* position of the for loop in the strategies list (1-based); in
                   \* fetch_transcript_en the layer, then the direct request
    log,           \* history: the external operations invoked, in order, with outcomes
    ret,           \* what the call gave its caller: pending, returned or raised
    gcs,           \* Cloud Storage: the blobs of the anthology bucket and of the
                   \* transcript bucket
    firestore,     \* the documents of the Firestore collection processed_videos
    tmpdirs        \* the staging directories of the download tool that exist

vars == <<pc, video_url, cookies_path, video_id, publish_date, idx, log, ret,
          gcs, firestore, tmpdirs>>

----------------------------------------------------------------------------
(* Python values *)

None == [tag |-> "None", val |-> ""]
Str(s) == [tag |-> "str", val |-> s]
PyInt(digits) == [tag |-> "int", val |-> digits]
Raise(cls) == [tag |-> "raise", val |-> cls]

IsRaise(v) == v.tag = "raise"

\* bool(v) for the values the fetcher tests: None and "" are falsy
Truthy(v) == v.tag = "str" /\ v.val # ""

\* The exception classes the fetcher's calls raise; all derive from Exception
ExceptionClasses ==
    { "ValueError", "FileNotFoundError", "LoadError", "RequestException",
      "Timeout", "DownloadError", "NoTranscriptFound", "TranscriptsDisabled",
      "TypeError", "AttributeError", "ParseError" }

IsInstanceOfException(cls) == cls \in ExceptionClasses

----------------------------------------------------------------------------
(* The stores: anthology_updater/main.py 8-17, ingest_videos.py 293-303, 477-484 *)

\* THEME_TO_FILENAME, in the order of the dictionary
THEME_TO_FILENAME ==
    << [theme |-> "AI Strategy & Leadership", filename |-> "ai-strategy-leadership.md"],
       [theme |-> "Prompt & Context Engineering", filename |-> "prompt-context-engineering.md"],
       [theme |-> "Agentic Architectures & Systems", filename |-> "agentic-architectures-systems.md"],
       [theme |-> "Model Analysis & Limitations", filename |-> "model-analysis-limitations.md"],
       [theme |-> "Market Analysis & Future Trends", filename |-> "market-analysis-future-trends.md"],
       [theme |-> "News & Weekly Recap", filename |-> "news-weekly-recap.md"],
       [theme |-> "Uncategorized", filename |-> "uncategorized.md"] >>

\* the blob names of the anthology bucket: the theme files, and a file of a theme that
\* is not in the dictionary
AnthologyBlobs ==
    { THEME_TO_FILENAME[i].filename : i \in 1..Len(THEME_TO_FILENAME) } \cup {"robotics.md"}

\* the videos the stores are keyed by
StoredVideos == {"jNQXAC9IVRw", "pEsoqm0o3Dk"}

\* a blob that does not exist is None, one that exists is the str of its text
EmptyGcs ==
    [anthology |-> [fn \in AnthologyBlobs |-> None],
     transcripts |-> [v \in StoredVideos |-> None]]

\* a document that does not exist is None, one that exists is the str of its status
EmptyFirestore == [v \in StoredVideos |-> None]

----------------------------------------------------------------------------
(* String helpers *)

Char(s, i) == SubSeq(s, i, i)

Digits == "0123456789"
IdAlphabet == "ABCDEFGHIJKLMNOPQRSTUVWXYZabcdefghijklmnopqrstuvwxyz0123456789_-"
Whitespace == {" ", "\t", "\n", "\r", "\f"}

InString(c, alphabet) == \E i \in 1..Len(alphabet) : Char(alphabet, i) = c

IsDigitChar(c) == InString(c, Digits)

\* s[i:i+Len(lit)] == lit
MatchAt(s, i, lit) ==
    /\ i >= 1
    /\ i + Len(lit) - 1 <= Len(s)
    /\ SubSeq(s, i, i + Len(lit) - 1) = lit

\* lit in s
Contains(s, lit) == \E i \in 1..(Len(s) + 1) : MatchAt(s, i, lit)

\* s.startswith(lit)
StartsWith(s, lit) == MatchAt(s, 1, lit)

\* str.strip()
RECURSIVE LStrip(_)
LStrip(s) ==
    IF Len(s) > 0 /\ Char(s, 1) \in Whitespace THEN LStrip(SubSeq(s, 2, Len(s))) ELSE s

RECURSIVE RStrip(_)
RStrip(s) ==
    IF Len(s) > 0 /\ Char(s, Len(s)) \in Whitespace
    THEN RStrip(SubSeq(s, 1, Len(s) - 1)) ELSE s

Strip(s) == RStrip(LStrip(s))

----------------------------------------------------------------------------
(* extract_video_id: client.py 25-37 *)

IdLen == 11

\* faulty variant: the pattern without its length, [A-Za-z0-9_-]+
IsCanonicalId_AnyLength(s) ==
    /\ Len(s) > 0
    /\ \A i \in 1..Len(s) : InString(Char(s, i), IdAlphabet)

\* re.fullmatch(r"[A-Za-z0-9_-]{11}", s)
IsCanonicalId(s) ==
    /\ Len(s) = IdLen
    /\ \A i \in 1..Len(s) : InString(Char(s, i), IdAlphabet)

\* positions where <prefix>([A-Za-z0-9_-]{11}) matches
PrefixedIdMatches(url, prefix) ==
    { i \in 1..Len(url) :
        /\ MatchAt(url, i, prefix)
        /\ i + Len(prefix) + IdLen - 1 <= Len(url)
        /\ IsCanonicalId(SubSeq(url, i + Len(prefix), i + Len(prefix) + IdLen - 1)) }

Min(S) == CHOOSE x \in S : \A y \in S : x <= y

\* re.search(prefix + r"([A-Za-z0-9_-]{11})", url): group(1) of the leftmost match, or None
SearchPrefixedId(url, prefix) ==
    LET hits == PrefixedIdMatches(url, prefix) IN
    IF hits = {} THEN None
    ELSE LET i == Min(hits) IN
         Str(SubSeq(url, i + Len(prefix), i + Len(prefix) + IdLen - 1))

\* faulty variant: the input is not trimmed
extract_video_id_NoStrip(raw) ==
    LET url == raw
        short == SearchPrefixedId(url, "youtu.be/")
        watch == SearchPrefixedId(url, "v=")
        embed == SearchPrefixedId(url, "/embed/")
    IN  IF IsCanonicalId(url) THEN Str(url)
        ELSE IF short # None THEN short
        ELSE IF watch # None THEN watch
        ELSE IF embed # None THEN embed
        ELSE Raise("ValueError")

extract_video_id(raw) ==
    LET url == Strip(raw)
        short == SearchPrefixedId(url, "youtu.be/")
        watch == SearchPrefixedId(url, "v=")
        embed == SearchPrefixedId(url, "/embed/")
    IN  IF IsCanonicalId(url) THEN Str(url)
        ELSE IF short # None THEN short
        ELSE IF watch # None THEN watch
        ELSE IF embed # None THEN embed
        ELSE Raise("ValueError")

----------------------------------------------------------------------------
(* The filesystem the cookie path is resolved against *)

ExistingFiles == {"cookies.txt", "garbled.txt"}
NetscapeJars == {"cookies.txt"}

\* os.path.exists(path)
PathExists(path) == path \in ExistingFiles

\* cookies_path if cookies_path and os.path.exists(cookies_path) else None
CookieFileOption(cp) == IF Truthy(cp) /\ PathExists(cp.val) THEN cp ELSE None

----------------------------------------------------------------------------
(* _get_date_via_ytdlp: client.py 87-101 *)

\* what ydl.extract_info does: raises, or returns info (None, or a dict whose
\* 'upload_date' entry is absent, a str or some other value)
InfoNone == [tag |-> "info_none", val |-> ""]
Info(upload_date) == [tag |-> "info", val |-> upload_date]

UploadDates ==
    { None, Str(""), Str("20240105"), Str("202401"), Str("2024010"),
      Str("202401051"), Str("2024-1-5"), Str("Jan 2024"), PyInt("20240105") }

DateResponses ==
    {Raise("DownloadError"), Raise("Timeout"), InfoNone}
        \cup { Info(d) : d \in UploadDates }

\* faulty variant: the handler catches the download tool's own error only
DateHandlerCatches_DownloadOnly(cls) == cls = "DownloadError"

\* the except clause of line 99
DateHandlerCatches(cls) == IsInstanceOfException(cls)

\* the try body, lines 89-98: a str, None (fell through) or a raise
DateTryBody(resp) ==
    IF IsRaise(resp) THEN resp
    ELSE IF resp.tag = "info_none" THEN Raise("AttributeError")
    ELSE LET upload_date == resp.val IN
         IF upload_date.tag = "None" THEN None
         ELSE IF upload_date.tag = "int" THEN Raise("TypeError")
         ELSE IF upload_date.val # "" /\ Len(upload_date.val) = 8
              THEN Str(SubSeq(upload_date.val, 1, 4) \o "-"
                        \o SubSeq(upload_date.val, 5, 6) \o "-"
                        \o SubSeq(upload_date.val, 7, Len(upload_date.val)))
              ELSE None

_get_date_via_ytdlp(resp) ==
    LET body == DateTryBody(resp) IN
    IF IsRaise(body)
    THEN IF DateHandlerCatches(body.val) THEN Str("unknown") ELSE body
    ELSE IF body.tag = "str" THEN body ELSE Str("unknown")

----------------------------------------------------------------------------
(* _read_and_clean_vtt: client.py 150-162 *)

LineBoundaries == {"\n", "\r", "\f"}

\* positions of the characters that end a line ("\r\n" ends it at its "\n")
LineEnds(s) ==
    { i \in 1..Len(s) : Char(s, i) \in LineBoundaries /\ ~MatchAt(s, i, "\r\n") }

\* the k-th smallest element of a set of numbers
Nth(S, k) == CHOOSE x \in S : Cardinality({ y \in S : y < x }) = k - 1

\* the line that the terminator at position e ends, which starts at position b
LineUpTo(s, b, e) ==
    IF MatchAt(s, e - 1, "\r\n") /\ e - 1 >= b THEN SubSeq(s, b, e - 2)
    ELSE SubSeq(s, b, e - 1)

\* str.splitlines()
SplitLines(s) ==
    LET ends == LineEnds(s)
        n == Cardinality(ends)
        start(k) == IF k = 1 THEN 1 ELSE Nth(ends, k - 1) + 1
        last == IF n = 0 THEN 0 ELSE Nth(ends, n)
        terminated == [k \in 1..n |-> LineUpTo(s, start(k), Nth(ends, k))]
    IN  IF last < Len(s) THEN Append(terminated, SubSeq(s, last + 1, Len(s)))
        ELSE terminated

\* sep.join(parts)
RECURSIVE Join(_, _)
Join(parts, sep) ==
    IF Len(parts) = 0 THEN ""
    ELSE IF Len(parts) = 1 THEN parts[1]
    ELSE parts[1] \o sep \o Join(Tail(parts), sep)

\* s.replace(old, new) for a one-character old
RECURSIVE ReplaceChar(_, _, _)
ReplaceChar(s, old, new) ==
    IF Len(s) = 0 THEN ""
    ELSE IF Len(s) = 1 THEN (IF s = old THEN new ELSE s)
    ELSE LET half == Len(s) \div 2 IN
         ReplaceChar(SubSeq(s, 1, half), old, new)
            \o ReplaceChar(SubSeq(s, half + 1, Len(s)), old, new)

\* str.isdigit()
IsDigit(s) == Len(s) > 0 /\ \A i \in 1..Len(s) : IsDigitChar(Char(s, i))

\* faulty variant: cue numbers are not tested for
IsFormatMarker_NoDigits(s) ==
    s = "" \/ StartsWith(s, "WEBVTT") \/ Contains(s, "-->")

\* the condition of line 157 on a stripped line
IsFormatMarker(s) ==
    s = "" \/ StartsWith(s, "WEBVTT") \/ Contains(s, "-->") \/ IsDigit(s)

RECURSIVE KeptLines(_)
KeptLines(raw) ==
    IF Len(raw) = 0 THEN <<>>
    ELSE LET s == Strip(Head(raw)) IN
         IF IsFormatMarker(s) THEN KeptLines(Tail(raw))
         ELSE <<s>> \o KeptLines(Tail(raw))

\* faulty variant: the kept lines are concatenated without a separator
CleanVtt_NoSeparator(vtt) ==
    ReplaceChar(Join(KeptLines(SplitLines(vtt)), ""), "\n", " ")

\* lines 154-160 on the text read from the file
CleanVtt(vtt) == ReplaceChar(Join(KeptLines(SplitLines(vtt)), " "), "\n", " ")

\* file is what open/read gives: the text, or a raise (caught at line 161)
_read_and_clean_vtt(file) ==
    IF IsRaise(file) THEN None ELSE Str(CleanVtt(file.val))

----------------------------------------------------------------------------
(* _fetch_ytdlp: client.py 123-148 *)

SubtitleLangs == <<"en", "en-US", "en-GB">>

\* glob of "<video_id>.<lang>.vtt" over the staged files, in listing order
RECURSIVE GlobLang(_, _)
GlobLang(files, lang) ==
    IF Len(files) = 0 THEN <<>>
    ELSE (IF Head(files).lang = lang THEN <<Head(files)>> ELSE <<>>)
            \o GlobLang(Tail(files), lang)

\* lines 142-144: the three exact patterns, then "<video_id>.*.vtt"
Candidates(files) ==
    GlobLang(files, SubtitleLangs[1]) \o GlobLang(files, SubtitleLangs[2])
        \o GlobLang(files, SubtitleLangs[3]) \o files

\* download is what ydl.download did: a raise, or the files it staged in tmpdir
_fetch_ytdlp(download) ==
    IF IsRaise(download) THEN download
    ELSE LET candidates == Candidates(download.val) IN
         IF Len(candidates) > 0 THEN _read_and_clean_vtt(candidates[1].file)
         ELSE None

----------------------------------------------------------------------------
(* _fetch_api: client.py 103-121 *)

\* MozillaCookieJar(cookies_path).load()
LoadCookieJar(path) ==
    IF ~PathExists(path) THEN Raise("FileNotFoundError")
    ELSE IF path \notin NetscapeJars THEN Raise("LoadError")
    ELSE None

\* [item['text'] for item in fetched]
RECURSIVE ItemTexts(_)
ItemTexts(items) ==
    IF Len(items) = 0 THEN <<>>
    ELSE <<Head(items).text>> \o ItemTexts(Tail(items))

\* lines 114-121; library is what api.list / find_*transcript / fetch did: a raise,
\* a list of dicts with a 'text' key, or a list of snippet objects (not subscriptable)
ApiBody(library) ==
    IF IsRaise(library) THEN library
    ELSE IF library.tag = "snippets" /\ Len(library.val) > 0 THEN Raise("TypeError")
    ELSE Str(ReplaceChar(Join(ItemTexts(library.val), " "), "\n", " "))

_fetch_api(cookies, library) ==
    IF Truthy(cookies) /\ IsRaise(LoadCookieJar(cookies.val))
    THEN LoadCookieJar(cookies.val)
    ELSE ApiBody(library)

----------------------------------------------------------------------------
(* _list_tracks: client.py 193-209 *)

\* an HTTP response of requests.get: status code and body; the body is kept parsed:
\* blank text, text ET.fromstring rejects, or the elements of a well-formed document
Http(status, body) == [tag |-> "http", status |-> status, body |-> body]
BlankBody == [kind |-> "blank", elems |-> <<>>]
MalformedBody == [kind |-> "malformed", elems |-> <<>>]
XmlBody(elems) == [kind |-> "xml", elems |-> elems]

Track(id, lang_code, kind) == [id |-> id, lang_code |-> lang_code, kind |-> kind]

TrackList(tracks) == [tag |-> "list", val |-> tracks]

\* faulty variant: the handler catches the errors of the request only
ListHandlerCatches_RequestOnly(cls) == cls \in {"RequestException", "Timeout"}

\* the except clause of line 208
ListHandlerCatches(cls) == IsInstanceOfException(cls)

\* the try body, lines 196-207
ListTryBody(listing) ==
    IF IsRaise(listing) THEN listing
    ELSE IF listing.status = 200 /\ listing.body.kind # "blank"
         THEN IF listing.body.kind = "malformed" THEN Raise("ParseError")
              ELSE TrackList(listing.body.elems)
         ELSE TrackList(<<>>)

_list_tracks(listing) ==
    LET body == ListTryBody(listing) IN
    IF IsRaise(body) /\ ListHandlerCatches(body.val) THEN TrackList(<<>>) ELSE body

----------------------------------------------------------------------------
(* _fetch_manual: client.py 164-191 *)

\* score(t), lines 169-176; with lang_code None, lang.startswith raises AttributeError
ScoreRaises(t) == t.lang_code.tag = "None"

\* faulty variant: the kind weighs more than the language
score_KindFirst(t) ==
    LET lang == t.lang_code.val
        byLang == IF lang = "en" THEN 20 ELSE IF StartsWith(lang, "en") THEN 10 ELSE 0
        byKind == IF t.kind # Str("asr") THEN 100 ELSE 0
    IN  byLang + byKind

score(t) ==
    LET lang == t.lang_code.val
        byLang == IF lang = "en" THEN 100 ELSE IF StartsWith(lang, "en") THEN 50 ELSE 0
        byKind == IF t.kind # Str("asr") THEN 20 ELSE 0
    IN  byLang + byKind

\* faulty variant: t goes in front of the elements of equal score
RECURSIVE InsertByScore_Unstable(_, _)
InsertByScore_Unstable(sorted, t) ==
    IF Len(sorted) = 0 THEN <<t>>
    ELSE IF score(Head(sorted)) > score(t)
         THEN <<Head(sorted)>> \o InsertByScore_Unstable(Tail(sorted), t)
         ELSE <<t>> \o sorted

\* insertion of t behind every element whose score is not lower: the sort is stable
RECURSIVE InsertByScore(_, _)
InsertByScore(sorted, t) ==
    IF Len(sorted) = 0 THEN <<t>>
    ELSE IF score(Head(sorted)) >= score(t)
         THEN <<Head(sorted)>> \o InsertByScore(Tail(sorted), t)
         ELSE <<t>> \o sorted

\* tracks.sort(key=score, reverse=True), line 178
RECURSIVE SortByScore(_)
SortByScore(tracks) ==
    IF Len(tracks) = 0 THEN <<>>
    ELSE InsertByScore(SortByScore(SubSeq(tracks, 1, Len(tracks) - 1)), tracks[Len(tracks)])

\* lines 178-179: best, the head of the sorted list; the AttributeError of score when
\* a track has no lang_code; None for an empty list
BestTrack(tracks) ==
    IF \E i \in 1..Len(tracks) : ScoreRaises(tracks[i]) THEN Raise("AttributeError")
    ELSE IF Len(tracks) > 0 THEN [tag |-> "track", val |-> SortByScore(tracks)[1]]
    ELSE None

\* lines 184-190 on the response of the track request
ManualPayloadText(tr) ==
    IF tr.status = 200 /\ tr.body.kind = "xml"
    THEN LET texts == SelectSeq(tr.body.elems, Truthy) IN
         IF Len(texts) > 0
         THEN Str(ReplaceChar(Join([i \in 1..Len(texts) |-> texts[i].val], " "), "\n", " "))
         ELSE None
    ELSE None

\* listing: what the list request did; payload: what the track request did
_fetch_manual(listing, payload) ==
    LET tracks == _list_tracks(listing) IN
    IF IsRaise(tracks) THEN tracks
    ELSE IF Len(tracks.val) = 0 THEN None
    ELSE LET best == BestTrack(tracks.val) IN
         IF IsRaise(best) THEN best
         ELSE IF Truthy(best.val.id)
              THEN IF IsRaise(payload) THEN payload ELSE ManualPayloadText(payload)
              ELSE None

----------------------------------------------------------------------------
(* The upstream: what each external call of a strategy may do *)

VttFull ==
    "WEBVTT\nKind: captions\n\n1\n00:00:00.000 --> 00:00:02.000\nhello world\n\n2\n00:00:02.000 --> 00:00:04.000\n  again \n"
VttHeaderOnly == "WEBVTT\n\n00:00:00.000 --> 00:00:02.000\n\n"

VttFile(lang, file) == [lang |-> lang, file |-> file]
Staged(files) == [tag |-> "staged", val |-> files]

DownloadResponses ==
    { Raise("DownloadError"),
      Staged(<<>>),
      Staged(<<VttFile("en", Str(VttFull))>>),
      Staged(<<VttFile("en-GB", Str(VttHeaderOnly)), VttFile("en", Str(VttFull))>>),
      Staged(<<VttFile("en-US", Str(VttHeaderOnly))>>),
      Staged(<<VttFile("en", Raise("FileNotFoundError"))>>) }

Item(text) == [text |-> text]
Dicts(items) == [tag |-> "dicts", val |-> items]
Snippets(items) == [tag |-> "snippets", val |-> items]

LibraryResponses ==
    { Raise("RequestException"), Raise("NoTranscriptFound"),
      Dicts(<<>>),
      Dicts(<<Item("api line"), Item("two\nrows")>>),
      Snippets(<<Item("api line")>>) }

ListingResponses ==
    { Raise("Timeout"),
      Http(404, BlankBody),
      Http(200, BlankBody),
      Http(200, MalformedBody),
      Http(200, XmlBody(<<>>)),
      Http(200, XmlBody(<<Track(Str("t1"), Str("en"), Str("asr")),
                         Track(Str("t2"), Str("en"), None)>>)),
      Http(200, XmlBody(<<Track(None, Str("en"), None)>>)),
      Http(200, XmlBody(<<Track(Str("t3"), None, None)>>)) }

PayloadResponses ==
    { Raise("Timeout"),
      Http(200, BlankBody),
      Http(200, MalformedBody),
      Http(200, XmlBody(<<None, Str("")>>)),
      Http(200, XmlBody(<<Str("manual text"), None, Str("more")>>)) }

ManualResponses == [listing : ListingResponses, payload : PayloadResponses]

----------------------------------------------------------------------------
(* get_transcript: client.py 39-85 *)

\* the strategies list, lines 62-68: name, the method the lambda calls, whether the
\* lambda passes cookies_path (else None), and the client argument
Strategy(name, fn, passes_cookies, client) ==
    [name |-> name, fn |-> fn, passes_cookies |-> passes_cookies, client |-> client]

\* faulty variant: the manual strategy listed before the authenticated library call
strategies_Reordered ==
    << Strategy("YouTubeTranscriptApi (No Cookies)", "_fetch_api", FALSE, ""),
       Strategy("yt-dlp Android Client", "_fetch_ytdlp", TRUE, "android"),
       Strategy("yt-dlp Web Client", "_fetch_ytdlp", TRUE, "web"),
       Strategy("Manual TimedText API", "_fetch_manual", FALSE, ""),
       Strategy("YouTubeTranscriptApi (With Cookies)", "_fetch_api", TRUE, "") >>

\* faulty variant: the web client is listed a second time as a retry
strategies_WebRetried ==
    << Strategy("YouTubeTranscriptApi (No Cookies)", "_fetch_api", FALSE, ""),
       Strategy("yt-dlp Android Client", "_fetch_ytdlp", TRUE, "android"),
       Strategy("yt-dlp Web Client", "_fetch_ytdlp", TRUE, "web"),
       Strategy("yt-dlp Web Client", "_fetch_ytdlp", TRUE, "web"),
       Strategy("YouTubeTranscriptApi (With Cookies)", "_fetch_api", TRUE, ""),
       Strategy("Manual TimedText API", "_fetch_manual", FALSE, "") >>

strategies ==
    << Strategy("YouTubeTranscriptApi (No Cookies)", "_fetch_api", FALSE, ""),
       Strategy("yt-dlp Android Client", "_fetch_ytdlp", TRUE, "android"),
       Strategy("yt-dlp Web Client", "_fetch_ytdlp", TRUE, "web"),
       Strategy("YouTubeTranscriptApi (With Cookies)", "_fetch_api", TRUE, ""),
       Strategy("Manual TimedText API", "_fetch_manual", FALSE, "") >>

\* the condition of line 72
SkipsStrategy(name, cp) ==
    Contains(name, "Cookies") /\ ~Truthy(cp) /\ ~Contains(name, "No Cookies")

\* faulty variant: the handler names another exception class
CallCatches_TypeError(cls) == cls = "TypeError"

\* the except clause of line 54
CallCatches(cls) == cls = "ValueError"

\* faulty variant: the handler catches network errors only
LadderCatches_NetworkOnly(cls) == cls \in {"RequestException", "Timeout", "DownloadError"}

\* faulty variant: a timeout is not among the exceptions the handler catches
LadderCatches_NoTimeout(cls) == IsInstanceOfException(cls) /\ cls # "Timeout"

\* the except clause of line 80
LadderCatches(cls) == IsInstanceOfException(cls)

UpstreamOf(fn) ==
    CASE fn = "_fetch_api" -> LibraryResponses
      [] fn = "_fetch_ytdlp" -> DownloadResponses
      [] fn = "_fetch_manual" -> ManualResponses

\* the cookies_path argument the lambda passes
PassedCookies(s, cp) == IF s.passes_cookies THEN cp ELSE None

\* strategy(): the call the lambda makes, on what the upstream does
Invoke(s, cp, up) ==
    CASE s.fn = "_fetch_api" -> _fetch_api(PassedCookies(s, cp), up)
      [] s.fn = "_fetch_ytdlp" -> _fetch_ytdlp(up)
      [] s.fn = "_fetch_manual" -> _fetch_manual(up.listing, up.payload)

\* the credential the strategy's requests carry
Credential(s, cp) ==
    CASE s.fn = "_fetch_api" -> (IF Truthy(PassedCookies(s, cp)) THEN cp ELSE None)
      [] s.fn = "_fetch_ytdlp" -> CookieFileOption(cp)
      [] s.fn = "_fetch_manual" -> None

\* one entry of the history: the method called, its cookies_path and client arguments,
\* the credential its requests carried, what the upstream did and what it returned
LogEntry(op, cookies, client, cred, up, out) ==
    [op |-> op, cookies |-> cookies, client |-> client, cred |-> cred,
     up |-> up, out |-> out]

\* faulty variant: "if content is not None"
Succeeded_NotNone(content) == content # None

\* the test of line 77
Succeeded(content) == Truthy(content)

Pending == [tag |-> "pending", transcript |-> None, date |-> "", exc |-> ""]
Returned(transcript, date) ==
    [tag |-> "returned", transcript |-> transcript, date |-> date, exc |-> ""]
Raised(cls) == [tag |-> "raised", transcript |-> None, date |-> "", exc |-> cls]

\* line 56
InvalidReferenceResult == Returned(None, "unknown")

\* faulty variant: the date is dropped on success
SuccessResult_Unknown(content, date) == Returned(content, "unknown")

\* line 79
SuccessResult(content, date) == Returned(content, date)

\* faulty variant: the date is reset when the ladder is exhausted
ExhaustedResult_Unknown(date) == Returned(None, "unknown")

\* line 85
ExhaustedResult(date) == Returned(None, date)

VideoRefs ==
    { "jNQXAC9IVRw",
      " https://www.youtube.com/watch?v=pEsoqm0o3Dk&t=5\n",
      "not a url", "https://youtu.be/tooshort", "" }

CookieArgs == { None, Str(""), Str("cookies.txt"), Str("garbled.txt"), Str("missing.txt") }

Init ==
    /\ pc = "idle"
    /\ video_url = ""
    /\ cookies_path = None
    /\ video_id = ""
    /\ publish_date = ""
    /\ idx = 0
    /\ log = <<>>
    /\ ret = Pending
    /\ gcs = EmptyGcs
    /\ firestore = EmptyFirestore
    /\ tmpdirs = {}

\* lines 52-56: the call starts and normalises the reference
Call ==
    /\ pc = "idle"
    /\ \E url \in VideoRefs, cp \in CookieArgs :
        LET id == extract_video_id(url) IN
        /\ video_url' = url
        /\ cookies_path' = cp
        /\ IF IsRaise(id)
           THEN /\ ret' = IF CallCatches(id.val) THEN InvalidReferenceResult
                          ELSE Raised(id.val)
                /\ pc' = "done"
                /\ UNCHANGED video_id
           ELSE /\ video_id' = id.val
                /\ pc' = "date"
                /\ UNCHANGED ret
    /\ UNCHANGED <<publish_date, idx, log>>
    /\ UNCHANGED <<gcs, firestore>>
    /\ UNCHANGED tmpdirs

\* line 59
ResolveDate ==
    /\ pc = "date"
    /\ \E resp \in DateResponses :
        LET date == _get_date_via_ytdlp(resp) IN
        /\ log' = Append(log, LogEntry("_get_date_via_ytdlp", cookies_path, "",
                                       CookieFileOption(cookies_path), resp, date))
        /\ IF IsRaise(date)
           THEN /\ ret' = Raised(date.val)
                /\ pc' = "done"
                /\ UNCHANGED <<publish_date, idx>>
           ELSE /\ publish_date' = date.val
                /\ idx' = 1
                /\ pc' = "ladder"
                /\ UNCHANGED ret
    /\ UNCHANGED <<video_url, cookies_path, video_id>>
    /\ UNCHANGED <<gcs, firestore>>
    /\ UNCHANGED tmpdirs

\* lines 70-73: an iteration that skips its strategy
LadderSkip ==
    /\ pc = "ladder"
    /\ idx <= Len(strategies)
    /\ SkipsStrategy(strategies[idx].name, cookies_path)
    /\ idx' = idx + 1
    /\ UNCHANGED <<pc, video_url, cookies_path, video_id, publish_date, log, ret>>
    /\ UNCHANGED <<gcs, firestore>>
    /\ UNCHANGED tmpdirs

\* lines 70-82: an iteration that runs its strategy
LadderAttempt ==
    /\ pc = "ladder"
    /\ idx <= Len(strategies)
    /\ ~SkipsStrategy(strategies[idx].name, cookies_path)
    /\ \E up \in UpstreamOf(strategies[idx].fn) :
        LET s == strategies[idx]
            content == Invoke(s, cookies_path, up)
        IN  /\ log' = Append(log, LogEntry(s.fn, PassedCookies(s, cookies_path), s.client,
                                               Credential(s, cookies_path), None, content))
            /\ IF IsRaise(content) /\ ~LadderCatches(content.val)
               THEN /\ ret' = Raised(content.val)
                    /\ pc' = "done"
                    /\ UNCHANGED idx
               ELSE IF ~IsRaise(content) /\ Succeeded(content)
               THEN /\ ret' = SuccessResult(content, publish_date)
                    /\ pc' = "done"
                    /\ UNCHANGED idx
               ELSE /\ idx' = idx + 1
                    /\ UNCHANGED <<pc, ret>>
    /\ UNCHANGED <<video_url, cookies_path, video_id, publish_date>>
    /\ UNCHANGED <<gcs, firestore>>
    /\ UNCHANGED tmpdirs

\* lines 84-85: the loop ran out of strategies
LadderExhausted ==
    /\ pc = "ladder"
    /\ idx > Len(strategies)
    /\ ret' = ExhaustedResult(publish_date)
    /\ pc' = "done"
    /\ UNCHANGED <<video_url, cookies_path, video_id, publish_date, idx, log>>
    /\ UNCHANGED <<gcs, firestore>>
    /\ UNCHANGED tmpdirs

Next == Call \/ ResolveDate \/ LadderSkip \/ LadderAttempt \/ LadderExhausted

Spec == Init /\ [][Next]_vars

\* a call that has started goes on: the interpreter runs the next statement, and
\* every external call returns, fails or times out
SpecReturns ==
    /\ Spec
    /\ WF_vars(ResolveDate)
    /\ WF_vars(LadderSkip)
    /\ WF_vars(LadderAttempt)
    /\ WF_vars(LadderExhausted)

----------------------------------------------------------------------------
(* fetch_transcript_en: ingest_videos.py 73-291 *)

\* lines 115-117
has_cookies(cp) == Truthy(cp) /\ PathExists(cp.val)

\* _read_and_clean_vtt of lines 101-113: the kept lines joined by newlines
IngestCleanVtt(vtt) == Join(KeptLines(SplitLines(vtt)), "\n")

IngestReadAndCleanVtt(file) ==
    IF IsRaise(file) THEN None ELSE Str(IngestCleanVtt(file.val))

\* the try bodies of layers 1 and 4 (lines 121-130, 211-225): item.text is read as
\* an attribute, which a dict does not have
IngestApiLayer(cookies, library) ==
    IF Truthy(cookies) /\ IsRaise(LoadCookieJar(cookies.val))
    THEN LoadCookieJar(cookies.val)
    ELSE IF IsRaise(library) THEN library
    ELSE IF library.tag = "dicts" /\ Len(library.val) > 0 THEN Raise("AttributeError")
    ELSE Str(Join(ItemTexts(library.val), "\n"))

\* the try bodies of layers 2 and 3 (lines 136-166, 173-204)
IngestYtdlpLayer(download) ==
    IF IsRaise(download) THEN download
    ELSE LET candidates == Candidates(download.val) IN
         IF Len(candidates) > 0 THEN IngestReadAndCleanVtt(candidates[1].file)
         ELSE None

\* the layers before the manual fallback: kind, whether cookies are used, client
IngestLayer(fn, uses_cookies, client) ==
    [fn |-> fn, uses_cookies |-> uses_cookies, client |-> client]

IngestLayers ==
    << IngestLayer("_fetch_api", FALSE, ""),
       IngestLayer("_fetch_ytdlp", FALSE, "android"),
       IngestLayer("_fetch_ytdlp", TRUE, "web"),
       IngestLayer("_fetch_api", TRUE, "") >>

\* the guards of lines 171 and 209
IngestSkips(layer, cp) == layer.uses_cookies /\ ~has_cookies(cp)

IngestLayerCookies(layer, cp) == IF layer.uses_cookies THEN cp ELSE None

IngestInvoke(layer, cp, up) ==
    CASE layer.fn = "_fetch_api" -> IngestApiLayer(IngestLayerCookies(layer, cp), up)
      [] layer.fn = "_fetch_ytdlp" -> IngestYtdlpLayer(up)

\* whether the layer returns its result: layers 1 and 4 return whatever text they
\* built (lines 130, 225), layers 2 and 3 only non-empty content (lines 165, 203)
IngestLayerReturns(layer, content) ==
    IF layer.fn = "_fetch_api" THEN content.tag = "str" ELSE Truthy(content)

\* the first index at which a loop of pick_track stops, given the indexes where it
\* would (a match, or a track whose lang_code is None where the loop calls
\* startswith on it); 0 when it runs through
FirstIndex(hits) == IF hits = {} THEN 0 ELSE Min(hits)

ExactEn(t) == t.lang_code = Str("en")
VariantEn(t) == t.lang_code.tag = "str" /\ StartsWith(t.lang_code.val, "en")
IsAsr(t) == t.kind = Str("asr")

\* pick_track, lines 232-249: the track picked, None, or the AttributeError of
\* None.startswith
pick_track(tracks) ==
    LET enManual(t) == ExactEn(t) /\ ~IsAsr(t)
        enAuto(t) == ExactEn(t) /\ IsAsr(t)
        varManual(t) == t.lang_code.tag = "None" \/ (VariantEn(t) /\ ~IsAsr(t))
        varAuto(t) == t.lang_code.tag = "None" \/ (VariantEn(t) /\ IsAsr(t))
        stops(Stop(_)) == { i \in 1..Len(tracks) : Stop(tracks[i]) }
        a == FirstIndex(stops(enManual))
        b == FirstIndex(stops(enAuto))
        c == FirstIndex(stops(varManual))
        d == FirstIndex(stops(varAuto))
        picked(i) == IF tracks[i].lang_code.tag = "None" THEN Raise("AttributeError")
                     ELSE [tag |-> "track", val |-> tracks[i]]
    IN  IF a > 0 THEN picked(a)
        ELSE IF b > 0 THEN picked(b)
        ELSE IF c > 0 THEN picked(c)
        ELSE IF d > 0 THEN picked(d)
        ELSE IF Len(tracks) > 0 THEN [tag |-> "track", val |-> tracks[1]]
        ELSE None

\* lines 256-267 and 274-285 on a timedtext response: the stripped, non-empty node
\* texts joined by newlines; None when there are none or the document is malformed
IngestPayloadText(tr) ==
    IF tr.status = 200 /\ tr.body.kind = "xml"
    THEN LET stripped == [i \in 1..Len(tr.body.elems) |->
                            IF tr.body.elems[i].tag = "str"
                            THEN Strip(tr.body.elems[i].val) ELSE ""]
             nonEmpty(x) == x # ""
             texts == SelectSeq(stripped, nonEmpty)
         IN  IF Len(texts) > 0 THEN Str(Join(texts, "\n")) ELSE None
    ELSE None

\* lines 231-267: the listed-track attempt of layer 5: text, None (go on to the
\* direct requests) or a raise (caught at line 288, which ends the layer)
IngestTrackAttempt(listing, payload) ==
    LET tracks == _list_tracks(listing) IN
    IF IsRaise(tracks) THEN tracks
    ELSE LET best == pick_track(tracks.val) IN
         IF IsRaise(best) THEN best
         ELSE IF best # None /\ Truthy(best.val.id)
              THEN IF IsRaise(payload) THEN payload ELSE IngestPayloadText(payload)
              ELSE None

\* lines 269-270: the direct timedtext requests, in order
DirectRequests ==
    << [lang |-> "en", asr |-> FALSE], [lang |-> "en", asr |-> TRUE],
       [lang |-> "en-US", asr |-> FALSE], [lang |-> "en-US", asr |-> TRUE],
       [lang |-> "en-GB", asr |-> FALSE], [lang |-> "en-GB", asr |-> TRUE] >>

\* lines 272-287 on one direct request; a raise is caught at line 286
IngestDirectAttempt(resp) ==
    IF IsRaise(resp) THEN None ELSE IngestPayloadText(resp)

DirectResponses ==
    { Raise("Timeout"),
      Http(404, BlankBody),
      Http(200, MalformedBody),
      Http(200, XmlBody(<<Str(" direct text "), None>>)) }

VideoIds == { "jNQXAC9IVRw", "pEsoqm0o3Dk" }

\* line 291
IngestExhaustedResult == Returned(None, "unknown")

InitIngest ==
    /\ pc = "i_idle"
    /\ video_url = ""
    /\ cookies_path = None
    /\ video_id = ""
    /\ publish_date = ""
    /\ idx = 0
    /\ log = <<>>
    /\ ret = Pending
    /\ gcs = EmptyGcs
    /\ firestore = EmptyFirestore
    /\ tmpdirs = {}

\* line 73: the call, with an ID that main normalised (line 470)
IngestCall ==
    /\ pc = "i_idle"
    /\ \E vid \in VideoIds, cp \in CookieArgs :
        /\ video_id' = vid
        /\ cookies_path' = cp
    /\ pc' = "i_date"
    /\ UNCHANGED <<video_url, publish_date, idx, log, ret>>
    /\ UNCHANGED <<gcs, firestore>>
    /\ UNCHANGED tmpdirs

\* line 99
IngestResolveDate ==
    /\ pc = "i_date"
    /\ \E resp \in DateResponses :
        LET date == _get_date_via_ytdlp(resp) IN
        /\ log' = Append(log, LogEntry("_get_date_via_ytdlp", cookies_path, "",
                                       CookieFileOption(cookies_path), resp, date))
        /\ IF IsRaise(date)
           THEN /\ ret' = Raised(date.val)
                /\ pc' = "i_done"
                /\ UNCHANGED <<publish_date, idx>>
           ELSE /\ publish_date' = date.val
                /\ idx' = 1
                /\ pc' = "i_layer"
                /\ UNCHANGED ret
    /\ UNCHANGED <<video_url, cookies_path, video_id>>
    /\ UNCHANGED <<gcs, firestore>>
    /\ UNCHANGED tmpdirs

\* lines 171, 209: a cookie layer without a usable cookie file
IngestLayerSkip ==
    /\ pc = "i_layer"
    /\ idx <= Len(IngestLayers)
    /\ IngestSkips(IngestLayers[idx], cookies_path)
    /\ idx' = idx + 1
    /\ UNCHANGED <<pc, video_url, cookies_path, video_id, publish_date, log, ret>>
    /\ UNCHANGED <<gcs, firestore>>
    /\ UNCHANGED tmpdirs

\* lines 119-227: one of layers 1-4
IngestLayerAttempt ==
    /\ pc = "i_layer"
    /\ idx <= Len(IngestLayers)
    /\ ~IngestSkips(IngestLayers[idx], cookies_path)
    /\ \E up \in UpstreamOf(IngestLayers[idx].fn) :
        LET layer == IngestLayers[idx]
            content == IngestInvoke(layer, cookies_path, up)
        IN  /\ log' = Append(log, LogEntry(layer.fn, IngestLayerCookies(layer, cookies_path),
                                           layer.client,
                                           IngestLayerCookies(layer, cookies_path),
                                           None, content))
            /\ IF ~IsRaise(content) /\ IngestLayerReturns(layer, content)
               THEN /\ ret' = Returned(content, publish_date)
                    /\ pc' = "i_done"
                    /\ UNCHANGED idx
               ELSE /\ idx' = idx + 1
                    /\ UNCHANGED <<pc, ret>>
    /\ UNCHANGED <<video_url, cookies_path, video_id, publish_date>>
    /\ UNCHANGED <<gcs, firestore>>
    /\ UNCHANGED tmpdirs

\* lines 230-267: layer 5 lists the tracks and fetches the picked one
IngestManual ==
    /\ pc = "i_layer"
    /\ idx = Len(IngestLayers) + 1
    /\ \E up \in ManualResponses :
        LET content == IngestTrackAttempt(up.listing, up.payload) IN
        /\ log' = Append(log, LogEntry("_fetch_manual", None, "", None, None, content))
        /\ IF IsRaise(content)
           THEN /\ pc' = "i_exhausted"
                /\ UNCHANGED <<idx, ret>>
           ELSE IF Truthy(content)
           THEN /\ ret' = Returned(content, publish_date)
                /\ pc' = "i_done"
                /\ UNCHANGED idx
           ELSE /\ pc' = "i_direct"
                /\ idx' = 1
                /\ UNCHANGED ret
    /\ UNCHANGED <<video_url, cookies_path, video_id, publish_date>>
    /\ UNCHANGED <<gcs, firestore>>
    /\ UNCHANGED tmpdirs

\* lines 269-287: one direct timedtext request of layer 5
IngestDirect ==
    /\ pc = "i_direct"
    /\ idx <= Len(DirectRequests)
    /\ \E resp \in DirectResponses :
        LET content == IngestDirectAttempt(resp) IN
        /\ log' = Append(log, LogEntry("timedtext", None, DirectRequests[idx].lang,
                                       None, None, content))
        /\ IF Truthy(content)
           THEN /\ ret' = Returned(content, publish_date)
                /\ pc' = "i_done"
                /\ UNCHANGED idx
           ELSE /\ idx' = idx + 1
                /\ UNCHANGED <<pc, ret>>
    /\ UNCHANGED <<video_url, cookies_path, video_id, publish_date>>
    /\ UNCHANGED <<gcs, firestore>>
    /\ UNCHANGED tmpdirs

\* line 291: every layer failed
IngestExhausted ==
    /\ \/ pc = "i_exhausted"
       \/ (pc = "i_direct" /\ idx > Len(DirectRequests))
    /\ ret' = IngestExhaustedResult
    /\ pc' = "i_done"
    /\ UNCHANGED <<video_url, cookies_path, video_id, publish_date, idx, log>>
    /\ UNCHANGED <<gcs, firestore>>
    /\ UNCHANGED tmpdirs

NextIngest ==
    \/ IngestCall \/ IngestResolveDate \/ IngestLayerSkip \/ IngestLayerAttempt
    \/ IngestManual \/ IngestDirect \/ IngestExhausted

SpecIngest == InitIngest /\ [][NextIngest]_vars

\* both fetchers: a call of either one
InitLadders == Init \/ InitIngest

NextLadders == Next \/ NextIngest

SpecLadders == InitLadders /\ [][NextLadders]_vars

----------------------------------------------------------------------------
(* extract_video_id on its own: client.py 25-37, ingest_videos.py 36-50 *)

\* what a plain function call gave its caller when it returned
Value(v) == [tag |-> "value", transcript |-> v, date |-> "", exc |-> ""]

\* video identifiers: the first YouTube video, one with every class of the alphabet,
\* and ones made of the words of the URL shapes
SampleIds ==
    { "jNQXAC9IVRw", "pEsoqm0o3Dk", "-_-_-_-_-_-", "00000000000",
      "embed_embed", "youtu-be__v" }

\* the raw ID, alone and inside whitespace
BareShapes(v) == { v, "  " \o v \o "\n", "\t" \o v \o " \r\n" }

\* youtu.be/<id>
ShortShapes(v) ==
    { "https://youtu.be/" \o v, "youtu.be/" \o v, "https://youtu.be/" \o v \o "?t=30" }

\* ...?v=<id>, alone and with further query parameters on either side
WatchShapes(v) ==
    { "https://www.youtube.com/watch?v=" \o v,
      "https://www.youtube.com/watch?v=" \o v \o "&t=5",
      "https://www.youtube.com/watch?feature=share&v=" \o v,
      "https://m.youtube.com/watch?list=PLrAXtmErZgOeiKm4sgNOknGvNjby9efdf&v="
          \o v \o "&index=2" }

\* .../embed/<id>
EmbedShapes(v) ==
    { "https://www.youtube.com/embed/" \o v,
      "https://www.youtube-nocookie.com/embed/" \o v \o "?rel=0" }

ShapesOf(v) == BareShapes(v) \cup ShortShapes(v) \cup WatchShapes(v) \cup EmbedShapes(v)

\* inputs of no recognized shape, and inputs with more than 11 identifier characters
OtherRefs ==
    { "not a url", "", "   ", "hello world", "abcdefghij", "abcdefghijkl",
      "https://youtu.be/tooshort", "https://youtu.be/",
      "https://www.youtube.com/watch?v=short&t=5",
      "https://www.youtube.com/watch?v=jNQX AC9IVRw",
      "https://www.youtube.com/embed/",
      "https://www.youtube.com/shorts/jNQXAC9IVRw",
      "https://vimeo.com/12345678901",
      "https://www.youtube.com/watch?v=jNQXAC9IVRwXYZ",
      "https://youtu.be/jNQXAC9IVRw_long-tail" }

ExtractInputs == (UNION { ShapesOf(v) : v \in SampleIds }) \cup OtherRefs

InitExtract ==
    /\ pc = "x_idle"
    /\ video_url \in ExtractInputs
    /\ cookies_path = None
    /\ video_id = ""
    /\ publish_date = ""
    /\ idx = 0
    /\ log = <<>>
    /\ ret = Pending
    /\ gcs = EmptyGcs
    /\ firestore = EmptyFirestore
    /\ tmpdirs = {}

\* the call extract_video_id(video_url)
ExtractCall ==
    /\ pc = "x_idle"
    /\ LET id == extract_video_id(video_url) IN
        /\ ret' = IF IsRaise(id) THEN Raised(id.val) ELSE Value(id)
        /\ video_id' = IF IsRaise(id) THEN video_id ELSE id.val
    /\ pc' = "x_done"
    /\ UNCHANGED <<video_url, cookies_path, publish_date, idx, log>>
    /\ UNCHANGED <<gcs, firestore>>
    /\ UNCHANGED tmpdirs

NextExtract == ExtractCall

SpecExtract == InitExtract /\ [][NextExtract]_vars

----------------------------------------------------------------------------
(* Track listing and ranking on their own: client.py 164-209, ingest_videos.py 53-70
   and 230-252 *)

MaxTracks == 3

\* the <track> elements a listing may hold: exact English, English variants and other
\* languages, authored (no kind attribute) and recognized speech (kind="asr"), two
\* authored English ones, and one element without a lang_code attribute
TrackElements ==
    { Track(Str("a"), Str("en"), None), Track(Str("b"), Str("en"), None),
      Track(Str("c"), Str("en"), Str("asr")),
      Track(Str("d"), Str("en-US"), None),
      Track(Str("e"), Str("en-GB"), Str("asr")),
      Track(Str("f"), Str("fr"), None),
      Track(Str("g"), Str("de"), Str("asr")),
      Track(Str("h"), None, None) }

\* the documents of up to MaxTracks elements, in every order
TrackDocuments == UNION { [1..n -> TrackElements] : n \in 0..MaxTracks }

\* what the request of the track list may do
TrackListings ==
    { Raise("RequestException"), Raise("Timeout"),
      Http(404, BlankBody), Http(200, BlankBody), Http(200, MalformedBody),
      Http(500, MalformedBody),
      Http(403, XmlBody(<<Track(Str("a"), Str("en"), None)>>)) }
        \cup { Http(200, XmlBody(doc)) : doc \in TrackDocuments }

InitTracks ==
    /\ pc = "t_idle"
    /\ video_url = ""
    /\ cookies_path = None
    /\ video_id = "jNQXAC9IVRw"
    /\ publish_date = ""
    /\ idx = 0
    /\ log = <<>>
    /\ ret = Pending
    /\ gcs = EmptyGcs
    /\ firestore = EmptyFirestore
    /\ tmpdirs = {}

\* tracks = _list_tracks(video_id), client.py 165 and ingest_videos.py 231
ListTracks ==
    /\ pc = "t_idle"
    /\ \E listing \in TrackListings :
        LET tracks == _list_tracks(listing) IN
        /\ log' = Append(log, LogEntry("_list_tracks", None, "", None, listing, tracks))
        /\ IF IsRaise(tracks)
           THEN pc' = "t_done" /\ ret' = Raised(tracks.val)
           ELSE pc' = "t_listed" /\ UNCHANGED ret
    /\ UNCHANGED <<video_url, cookies_path, video_id, publish_date, idx>>
    /\ UNCHANGED <<gcs, firestore>>
    /\ UNCHANGED tmpdirs

\* client.py 166-179: nothing for an empty list, else the sort and its head
RankByScore ==
    /\ pc = "t_listed"
    /\ LET tracks == log[1].out.val
           best == IF Len(tracks) = 0 THEN None ELSE BestTrack(tracks)
       IN  /\ log' = Append(log, LogEntry("sort", None, "", None, TrackList(tracks), best))
           /\ ret' = IF IsRaise(best) THEN Raised(best.val) ELSE Value(best)
    /\ pc' = "t_done"
    /\ UNCHANGED <<video_url, cookies_path, video_id, publish_date, idx>>
    /\ UNCHANGED <<gcs, firestore>>
    /\ UNCHANGED tmpdirs

\* ingest_videos.py 252: best = pick_track(tracks)
RankByPickTrack ==
    /\ pc = "t_listed"
    /\ LET tracks == log[1].out.val
           best == pick_track(tracks)
       IN  /\ log' = Append(log, LogEntry("pick_track", None, "", None,
                                          TrackList(tracks), best))
           /\ ret' = IF IsRaise(best) THEN Raised(best.val) ELSE Value(best)
    /\ pc' = "t_done"
    /\ UNCHANGED <<video_url, cookies_path, video_id, publish_date, idx>>
    /\ UNCHANGED <<gcs, firestore>>
    /\ UNCHANGED tmpdirs

NextTracks == ListTracks \/ RankByScore \/ RankByPickTrack

SpecTracks == InitTracks /\ [][NextTracks]_vars

----------------------------------------------------------------------------
(* Caption cleaning on its own: client.py 150-162, ingest_videos.py 101-113 *)

MaxLines == 3

\* lines of a caption file: the header, a cue number, a cue timing, text with and
\* without surrounding blanks, a blank line, and text that would make up a marker if
\* lines were glued together
VttLines ==
    { "WEBVTT", "7", "00:01.000 --> 00:02.000", "hello", "  hi there ", "",
      "a --", "> b", "WEBVT", "T 12" }

\* the files of up to MaxLines such lines, and three whole files, one with CRLF ends
VttTexts ==
    { Join(ls, "\n") : ls \in UNION { [1..n -> VttLines] : n \in 1..MaxLines } }
        \cup { VttFull, VttHeaderOnly, "WEBVTT\r\n\r\n1\r\n00:00 --> 00:01\r\nfirst\r\n 22 \r\nsecond\r\n" }

InitClean ==
    /\ pc = "c_idle"
    /\ video_url = ""
    /\ cookies_path = None
    /\ video_id = ""
    /\ publish_date = ""
    /\ idx = 0
    /\ log = <<>>
    /\ ret = Pending
    /\ gcs = EmptyGcs
    /\ firestore = EmptyFirestore
    /\ tmpdirs = {}

\* client.py 150-162 on a file that holds vtt
CleanClient ==
    /\ pc = "c_idle"
    /\ \E vtt \in VttTexts :
        LET out == _read_and_clean_vtt(Str(vtt)) IN
        /\ log' = <<LogEntry("client._read_and_clean_vtt", None, "", None, Str(vtt), out)>>
        /\ ret' = Value(out)
    /\ pc' = "c_cleaned"
    /\ UNCHANGED <<video_url, cookies_path, video_id, publish_date, idx>>
    /\ UNCHANGED <<gcs, firestore>>
    /\ UNCHANGED tmpdirs

\* ingest_videos.py 101-113 on a file that holds vtt
CleanIngest ==
    /\ pc = "c_idle"
    /\ \E vtt \in VttTexts :
        LET out == IngestReadAndCleanVtt(Str(vtt)) IN
        /\ log' = <<LogEntry("ingest._read_and_clean_vtt", None, "", None, Str(vtt), out)>>
        /\ ret' = Value(out)
    /\ pc' = "c_cleaned"
    /\ UNCHANGED <<video_url, cookies_path, video_id, publish_date, idx>>
    /\ UNCHANGED <<gcs, firestore>>
    /\ UNCHANGED tmpdirs

\* the same function once more, on a file that holds what it returned
CleanAgain ==
    /\ pc = "c_cleaned"
    /\ LET op == log[1].op
           in == log[1].out
           out == IF op = "client._read_and_clean_vtt" THEN _read_and_clean_vtt(in)
                  ELSE IngestReadAndCleanVtt(in)
       IN  /\ log' = Append(log, LogEntry(op, None, "", None, in, out))
           /\ ret' = Value(out)
    /\ pc' = "c_done"
    /\ UNCHANGED <<video_url, cookies_path, video_id, publish_date, idx>>
    /\ UNCHANGED <<gcs, firestore>>
    /\ UNCHANGED tmpdirs

NextClean == CleanClient \/ CleanIngest \/ CleanAgain

SpecClean == InitClean /\ [][NextClean]_vars

----------------------------------------------------------------------------
(* yt_fetch: youtube_fetcher/__init__.py 4-24 *)

\* lines 19-24 on what get_transcript gave: the formatted text, None, or the
\* exception get_transcript raised
yt_fetch(result) ==
    IF result.tag = "raised" THEN Raise(result.exc)
    ELSE LET transcript == result.transcript
             date == result.date
         IN  IF Truthy(transcript)
             THEN Str("Date: " \o date \o "\n\n" \o transcript.val)
             ELSE None

\* lines 21-24, once the call of get_transcript of line 20 is over
YtFetchReturn ==
    /\ pc = "done"
    /\ LET out == yt_fetch(ret) IN
        /\ log' = Append(log, LogEntry("get_transcript", cookies_path, "", None, ret, out))
        /\ ret' = IF IsRaise(out) THEN Raised(out.val) ELSE Value(out)
    /\ pc' = "y_done"
    /\ UNCHANGED <<video_url, cookies_path, video_id, publish_date, idx>>
    /\ UNCHANGED <<gcs, firestore>>
    /\ UNCHANGED tmpdirs

NextFetch == Next \/ YtFetchReturn

SpecFetch == Init /\ [][NextFetch]_vars

----------------------------------------------------------------------------
(* anthology_updater: anthology_updater/main.py 19-114 *)

MaxRequests == 3

\* a key the JSON payload does not have
Missing == [tag |-> "missing", val |-> ""]

\* the request: its method and the payload request.get_json(silent=True) gives
\* (None when the body is not JSON)
Payload(processed_transcript, theme, vid, date) ==
    [tag |-> "json", processed_transcript |-> processed_transcript, theme |-> theme,
     video_id |-> vid, date |-> date]

NoPayload == [tag |-> "None", processed_transcript |-> Missing, theme |-> Missing,
              video_id |-> Missing, date |-> Missing]

\* a text of an analysis, and one that quotes the marker of another video
ProcessedTranscripts ==
    { Str("Core thesis: agents need memory."),
      Str("Follows up on <!-- VIDEO_ID: pEsoqm0o3Dk --> and extends it.") }

\* two themes of the dictionary, and one that is not in it
RequestThemes == { Str("AI Strategy & Leadership"), Str("Uncategorized"), Str("Robotics") }

RequestDates == { Str("2024-01-05") }

Payloads ==
    { Payload(t, th, Str(v), d) :
        t \in ProcessedTranscripts, th \in RequestThemes, v \in StoredVideos,
        d \in RequestDates }
      \cup { NoPayload,
             Payload(Str("Core thesis: agents need memory."), Str("Uncategorized"),
                     Str("jNQXAC9IVRw"), Str("")),
             Payload(Str("Core thesis: agents need memory."), Str("Uncategorized"),
                     Str("pEsoqm0o3Dk"), Missing),
             Payload(Str("Core thesis: agents need memory."), Missing,
                     Str("jNQXAC9IVRw"), Missing),
             Payload(Missing, Str("Uncategorized"), Str("jNQXAC9IVRw"), Missing),
             Payload(Str("Core thesis: agents need memory."), Str("Uncategorized"),
                     Missing, Missing) }

\* a call of the function: the method, the value of ANTHOLOGY_BUCKET_NAME ("" when
\* unset) and the payload
Request(method, bucket_name, json) ==
    [method |-> method, bucket_name |-> bucket_name, json |-> json]

Requests ==
    { Request("POST", "anthologies", json) : json \in Payloads }
        \cup { Request("OPTIONS", "anthologies", NoPayload),
               Request("GET", "anthologies", NoPayload) }
        \cup { Request("POST", "", json) :
                 json \in { Payload(Str("Core thesis: agents need memory."),
                                    Str("Uncategorized"), Str("jNQXAC9IVRw"), Missing) } }

\* the external call of the handler that raises, if one does: the first storage read
\* of the scan, the upload, the Firestore write
UpdaterFaults == {"none", "scan", "upload", "firestore"}

\* what the handler returns: the HTTP status and the fields of the JSON body
Response(code, status, vid, file) ==
    [code |-> code, status |-> status, video_id |-> vid, file |-> file]

\* line 62
IdempotencyMarker(vid) == "<!-- VIDEO_ID: " \o vid \o " -->"

\* THEME_TO_FILENAME.get(theme), line 53: the filename, or "" for None
FilenameOfTheme(theme) ==
    LET hits == { i \in 1..Len(THEME_TO_FILENAME) : THEME_TO_FILENAME[i].theme = theme } IN
    IF hits = {} THEN "" ELSE THEME_TO_FILENAME[Min(hits)].filename

\* lines 63-69: the first theme file, in dictionary order, that exists and holds the
\* marker; "" when the loop runs through
DuplicateFile(anthology, idempotency_marker) ==
    LET hits == { i \in 1..Len(THEME_TO_FILENAME) :
                    LET b == anthology[THEME_TO_FILENAME[i].filename] IN
                    b # None /\ Contains(b.val, idempotency_marker) }
    IN  IF hits = {} THEN "" ELSE THEME_TO_FILENAME[Min(hits)].filename

\* faulty variant: the block is written without the marker
NewBlock_NoMarker(existing_content, idempotency_marker, header_date, processed_transcript) ==
    IF existing_content # ""
    THEN "\n\n---\n\n" \o header_date \o "\n\n" \o processed_transcript
    ELSE header_date \o "\n\n" \o processed_transcript

\* lines 79-82
NewBlock(existing_content, idempotency_marker, header_date, processed_transcript) ==
    IF existing_content # ""
    THEN "\n\n---\n\n" \o idempotency_marker \o "\n\n" \o header_date \o "\n\n"
            \o processed_transcript
    ELSE idempotency_marker \o "\n\n" \o header_date \o "\n\n" \o processed_transcript

\* line 78, with date_value of line 50
HeaderDate(date) ==
    LET date_value == IF date = Missing THEN "unknown" ELSE date.val IN
    IF date_value # "" THEN "Date: " \o date_value ELSE "Date: unknown"

\* the handler: the response, and the stores as it leaves them
Outcome(resp, anthology, registry, uploaded) ==
    [resp |-> resp, anthology |-> anthology, registry |-> registry, uploaded |-> uploaded]

\* faulty variant: the status is written before the upload
anthology_updater_StatusBeforeUpload(method, bucket_name, json, anthology, registry, fault) ==
    LET unchanged(resp) == Outcome(resp, anthology, registry, FALSE) IN
    IF method = "OPTIONS" THEN unchanged(Response(204, "", "", ""))
    ELSE IF method # "POST" THEN unchanged(Response(405, "error", "", ""))
    ELSE IF bucket_name = "" THEN unchanged(Response(500, "error", "", ""))
    ELSE IF json.tag = "None" \/ json.processed_transcript = Missing
            \/ json.theme = Missing \/ json.video_id = Missing
         THEN unchanged(Response(400, "error", "", ""))
    ELSE LET vid == json.video_id.val
             filename == FilenameOfTheme(json.theme.val)
             idempotency_marker == IdempotencyMarker(vid)
             dup == DuplicateFile(anthology, idempotency_marker)
             blob == anthology[filename]
             existing_content == IF blob # None THEN blob.val ELSE ""
             updated_content ==
                 existing_content \o NewBlock(existing_content, idempotency_marker,
                                              HeaderDate(json.date),
                                              json.processed_transcript.val)
         IN  IF filename = "" THEN unchanged(Response(400, "error", "", ""))
             ELSE IF fault = "scan" THEN unchanged(Response(500, "error", "", ""))
             ELSE IF dup # "" THEN unchanged(Response(200, "skipped_duplicate", vid, dup))
             ELSE IF fault = "upload"
                  THEN Outcome(Response(500, "error", "", ""), anthology,
                               [registry EXCEPT ![vid] = Str("COMPLETED")], FALSE)
             ELSE Outcome(Response(200, "appended", vid, filename),
                          [anthology EXCEPT ![filename] = Str(updated_content)],
                          IF fault = "firestore" THEN registry
                          ELSE [registry EXCEPT ![vid] = Str("COMPLETED")],
                          TRUE)

anthology_updater(method, bucket_name, json, anthology, registry, fault) ==
    LET unchanged(resp) == Outcome(resp, anthology, registry, FALSE) IN
    IF method = "OPTIONS" THEN unchanged(Response(204, "", "", ""))
    ELSE IF method # "POST" THEN unchanged(Response(405, "error", "", ""))
    ELSE IF bucket_name = "" THEN unchanged(Response(500, "error", "", ""))
    ELSE IF json.tag = "None" \/ json.processed_transcript = Missing
            \/ json.theme = Missing \/ json.video_id = Missing
         THEN unchanged(Response(400, "error", "", ""))
    ELSE LET vid == json.video_id.val
             filename == FilenameOfTheme(json.theme.val)
             idempotency_marker == IdempotencyMarker(vid)
             dup == DuplicateFile(anthology, idempotency_marker)
             blob == anthology[filename]
             existing_content == IF blob # None THEN blob.val ELSE ""
             updated_content ==
                 existing_content \o NewBlock(existing_content, idempotency_marker,
                                              HeaderDate(json.date),
                                              json.processed_transcript.val)
         IN  IF filename = "" THEN unchanged(Response(400, "error", "", ""))
             ELSE IF fault = "scan" THEN unchanged(Response(500, "error", "", ""))
             ELSE IF dup # "" THEN unchanged(Response(200, "skipped_duplicate", vid, dup))
             ELSE IF fault = "upload" THEN unchanged(Response(500, "error", "", ""))
             ELSE Outcome(Response(200, "appended", vid, filename),
                          [anthology EXCEPT ![filename] = Str(updated_content)],
                          IF fault = "firestore" THEN registry
                          ELSE [registry EXCEPT ![vid] = Str("COMPLETED")],
                          TRUE)

\* a request that was served, with the response it got
Served(request, resp) ==
    [tag |-> "served", request |-> request, resp |-> resp, transcript |-> None,
     date |-> "", exc |-> ""]

InitUpdater ==
    /\ pc = "u_serving"
    /\ video_url = ""
    /\ cookies_path = None
    /\ video_id = ""
    /\ publish_date = ""
    /\ idx = 0
    /\ log = <<>>
    /\ ret = Pending
    /\ gcs = EmptyGcs
    /\ firestore = EmptyFirestore
    /\ tmpdirs = {}

\* one request, served from start to end; the history keeps the uploads
UpdaterRequest ==
    /\ pc = "u_serving"
    /\ idx < MaxRequests
    /\ \E request \in Requests, fault \in UpdaterFaults :
        LET json == request.json
            o == anthology_updater(request.method, request.bucket_name, json,
                                   gcs.anthology, firestore, fault)
        IN  /\ ret' = Served(request, o.resp)
            /\ gcs' = [gcs EXCEPT !.anthology = o.anthology]
            /\ firestore' = o.registry
            /\ video_id' = IF json.video_id = Missing THEN "" ELSE json.video_id.val
            /\ log' = IF o.uploaded
                      THEN Append(log, LogEntry("upload_from_string", None, "", None,
                                                json, Str(o.resp.file)))
                      ELSE log
    /\ idx' = idx + 1
    /\ UNCHANGED <<pc, video_url, cookies_path, publish_date>>
    /\ UNCHANGED tmpdirs

NextUpdater == UpdaterRequest

SpecUpdater == InitUpdater /\ [][NextUpdater]_vars

----------------------------------------------------------------------------
(* The anthology append of the ingest run: ingest_videos.py 392-420, 611-667 *)

UpperCase == "ABCDEFGHIJKLMNOPQRSTUVWXYZ"
LowerCase == "abcdefghijklmnopqrstuvwxyz"

\* the letters, each with its lower-case and its upper-case form
ToLower ==
    [c \in { Char(UpperCase, j) : j \in 1..26 } \cup { Char(LowerCase, j) : j \in 1..26 } |->
        LET j == CHOOSE k \in 1..26 : c \in {Char(UpperCase, k), Char(LowerCase, k)} IN
        Char(LowerCase, j)]

ToUpper ==
    [c \in DOMAIN ToLower |->
        LET j == CHOOSE k \in 1..26 : c \in {Char(UpperCase, k), Char(LowerCase, k)} IN
        Char(UpperCase, j)]

IsLetter(c) == c \in DOMAIN ToLower

\* str.lower()
Lower(s) ==
    Join([i \in 1..Len(s) |-> IF IsLetter(Char(s, i)) THEN ToLower[Char(s, i)]
                               ELSE Char(s, i)], "")

\* str.title(): a letter after a non-letter is upper case, the others lower case
Title(s) ==
    Join([i \in 1..Len(s) |->
            IF ~IsLetter(Char(s, i)) THEN Char(s, i)
            ELSE IF i > 1 /\ IsLetter(Char(s, i - 1)) THEN ToLower[Char(s, i)]
            ELSE ToUpper[Char(s, i)]], "")

\* s.replace(old, new) for a non-empty old: leftmost matches, not overlapping
RECURSIVE Replace(_, _, _)
Replace(s, old, new) ==
    IF Len(s) < Len(old) THEN s
    ELSE IF MatchAt(s, 1, old) THEN new \o Replace(SubSeq(s, Len(old) + 1, Len(s)), old, new)
    ELSE Char(s, 1) \o Replace(SubSeq(s, 2, Len(s)), old, new)

\* re.sub(r'[^a-z0-9-]', '', s)
SlugChars(s) ==
    LET keep(c) == (IsLetter(c) /\ ToLower[c] = c) \/ IsDigitChar(c) \/ c = "-" IN
    Join(SelectSeq([i \in 1..Len(s) |-> Char(s, i)], keep), "")

MaxSlugLen == 100

\* lines 646-657: the anthology file of the theme the agent named
AnthologyFileOf(theme_match) ==
    LET theme == Strip(Replace(Strip(theme_match), "\\n", ""))
        dashed == Replace(Replace(Replace(Lower(theme), " & ", "-"), " ", "-"), "---", "-")
        slug == SlugChars(dashed)
    IN  (IF Len(slug) > MaxSlugLen THEN SubSeq(slug, 1, MaxSlugLen) ELSE slug) \o ".md"

\* line 409: the heading of a new anthology file
AnthologyHeading(theme_file) ==
    "# " \o Title(Replace(Replace(theme_file, ".md", ""), "-", " ")) \o "\n\n"

\* lines 392-420: the text of the file after the call (None: no upload) and the value
\* returned; fault is the storage call that raises, if one does ("read", "upload")
Appended(text, returned) == [text |-> text, returned |-> returned]

append_to_anthology(blob, theme_file, vid, date, content, fault) ==
    LET current_text == IF blob # None THEN blob.val ELSE ""
        started == IF current_text = "" THEN AnthologyHeading(theme_file) ELSE current_text
        new_entry == "\n\n---\n\n<!-- VIDEO_ID: " \o vid \o " -->\nDate: " \o date
                        \o "\n\n" \o content
    IN  IF fault = "read" THEN Appended(None, FALSE)
        ELSE IF Contains(current_text, "<!-- VIDEO_ID: " \o vid \o " -->")
             THEN Appended(None, TRUE)
        ELSE IF fault = "upload" THEN Appended(None, FALSE)
        ELSE Appended(Str(started \o new_entry), TRUE)

----------------------------------------------------------------------------
(* The ingest run: ingest_videos.py 293-363, 445-724 *)

MaxVideos == 2

\* s.split(c) for a one-character c
RECURSIVE SplitOn(_, _)
SplitOn(s, c) ==
    LET cuts == { i \in 1..Len(s) : Char(s, i) = c } IN
    IF cuts = {} THEN <<s>>
    ELSE <<SubSeq(s, 1, Min(cuts) - 1)>> \o SplitOn(SubSeq(s, Min(cuts) + 1, Len(s)), c)

\* line 301: what upload_to_gcs writes
TranscriptBlob(publish, content) ==
    "This video was published on " \o publish \o ".\n\n" \o content

\* verify_gcs_upload, lines 307-328: passed or not; fault: the storage call raised
verify_gcs_upload(blob, expected_date, fault) ==
    IF fault THEN FALSE
    ELSE IF blob = None THEN FALSE
    ELSE IF blob.val = "" THEN FALSE
    ELSE Strip(SplitOn(blob.val, "\n")[1])
            = "This video was published on " \o expected_date \o "."

\* faulty variant: the marker is looked for, the date is not
verify_anthology_update_MarkerOnly(blob, vid, expected_date, fault) ==
    IF fault THEN FALSE
    ELSE IF blob = None THEN FALSE
    ELSE Contains(blob.val, "<!-- VIDEO_ID: " \o vid \o " -->")

\* verify_anthology_update, lines 334-363
verify_anthology_update(blob, vid, expected_date, fault) ==
    IF fault THEN FALSE
    ELSE IF blob = None THEN FALSE
    ELSE LET marker == "<!-- VIDEO_ID: " \o vid \o " -->"
             lines == SplitOn(blob.val, "\n")
             marked == { i \in 1..Len(lines) : Contains(lines[i], marker) }
         IN  IF marked = {} THEN FALSE
             ELSE LET i == Min(marked)
                      dated == { j \in i..Min({i + 14, Len(lines)}) :
                                   StartsWith(Strip(lines[j]), "Date:") }
                  IN  IF dated = {} THEN FALSE
                      ELSE Contains(lines[Min(dated)], expected_date)

\* db of line 458 is None when the Firestore client could not be made
NoDb == [tag |-> "None", val |-> ""]

\* the entries of videos.yml
RunUrls == { "jNQXAC9IVRw", "https://youtu.be/pEsoqm0o3Dk", "not a url" }

\* what fetch_transcript_en gives main: no text, empty text, text with and without
\* a date
FetchResults ==
    { Returned(None, "unknown"), Returned(Str(""), "2024-01-05"),
      Returned(Str("hello\nagain"), "2024-01-05"),
      Returned(Str("hello\nagain"), "unknown") }

\* what process_video and the parsing of lines 541-618 give: a raise, the theme and
\* the content the two patterns matched, or a text they did not match
AgentParsed(theme, content) == [tag |-> "parsed", theme |-> theme, content |-> content]
AgentUnparsed(resp_text) == [tag |-> "unparsed", theme |-> "", content |-> resp_text]

AgentResponses ==
    { Raise("RequestException"),
      AgentParsed("AI Strategy & Leadership\\n", "Thesis:\\nmemory. "),
      AgentUnparsed("No analysis.") }

\* lines 620-667: the file the entry goes to and the text handed to the append
SaveTarget(resp) ==
    IF resp.tag = "parsed"
    THEN [file |-> AnthologyFileOf(resp.theme),
          content |-> Replace(Strip(resp.content), "\\n", "\n")]
    ELSE [file |-> "uncategorized.md", content |-> resp.content]

\* doc_ref.set({"status": status, ...}, merge=True) when there is a db
SetStatus(registry, vid, status) ==
    IF registry = NoDb THEN registry ELSE [registry EXCEPT ![vid] = Str(status)]

\* faulty variant: any recorded status makes main skip the video
IsCompleted_AnyStatus(registry, vid) ==
    IF registry = NoDb THEN FALSE ELSE registry[vid] # None

\* lines 478-483: there is a db, the document exists and its status is COMPLETED
IsCompleted(registry, vid) ==
    IF registry = NoDb THEN FALSE ELSE registry[vid] = Str("COMPLETED")

RunEntry(op, vid, file, out) == LogEntry(op, None, file, None, Str(vid), out)

InitRun ==
    /\ pc = "m_next"
    /\ video_url = ""
    /\ cookies_path = None
    /\ video_id = ""
    /\ publish_date = ""
    /\ idx = 0
    /\ log = <<>>
    /\ ret = Pending
    /\ gcs = EmptyGcs
    /\ firestore \in {EmptyFirestore, NoDb}
    /\ tmpdirs = {}

\* lines 468-473: an entry of videos.yml that is no video reference
RunInvalid ==
    /\ pc = "m_next"
    /\ idx < MaxVideos
    /\ \E url \in RunUrls :
        /\ IsRaise(extract_video_id(url))
        /\ video_url' = url
    /\ idx' = idx + 1
    /\ UNCHANGED <<pc, cookies_path, video_id, publish_date, log, ret, gcs, firestore>>
    /\ UNCHANGED tmpdirs

\* lines 477-486: the video is COMPLETED in Firestore
RunSkipCompleted ==
    /\ pc = "m_next"
    /\ idx < MaxVideos
    /\ \E url \in RunUrls :
        LET vid == extract_video_id(url) IN
        /\ ~IsRaise(vid)
        /\ IsCompleted(firestore, vid.val)
        /\ video_url' = url
        /\ video_id' = vid.val
    /\ idx' = idx + 1
    /\ UNCHANGED <<pc, cookies_path, publish_date, log, ret, gcs, firestore>>
    /\ UNCHANGED tmpdirs

\* lines 477-496: the video is taken up and marked PROCESSING (a failure of that
\* write is passed over)
RunStart ==
    /\ pc = "m_next"
    /\ idx < MaxVideos
    /\ \E url \in RunUrls, write_fails \in BOOLEAN :
        LET vid == extract_video_id(url) IN
        /\ ~IsRaise(vid)
        /\ ~IsCompleted(firestore, vid.val)
        /\ firestore = NoDb => ~write_fails
        /\ video_url' = url
        /\ video_id' = vid.val
        /\ firestore' = IF write_fails THEN firestore
                        ELSE SetStatus(firestore, vid.val, "PROCESSING")
    /\ pc' = "m_fetch"
    /\ UNCHANGED <<cookies_path, publish_date, idx, log, ret, gcs>>
    /\ UNCHANGED tmpdirs

\* a step ends the video with status FAILED (continue); the next pass of the loop
\* reads none of the locals of this one. The write of the status is in no try block
\* of its own (lines 515, 526, 537, 672, 681): when it raises, main ends there
RunFailed(step) ==
    \E write_fails \in BOOLEAN :
        /\ firestore = NoDb => ~write_fails
        /\ log' = Append(log, RunEntry(step, video_id, "", Str("FAILED")))
        /\ IF write_fails
           THEN /\ pc' = "m_crashed"
                /\ UNCHANGED <<idx, firestore>>
           ELSE /\ firestore' = SetStatus(firestore, video_id, "FAILED")
                /\ pc' = "m_next"
                /\ idx' = idx + 1
        /\ publish_date' = ""
        /\ ret' = Pending

\* lines 498-518: fetch_transcript_en and the test of its text
RunFetch ==
    /\ pc = "m_fetch"
    /\ \E result \in FetchResults :
        IF ~Truthy(result.transcript)
        THEN RunFailed("fetch_transcript_en")
        ELSE /\ ret' = result
             /\ publish_date' = result.date
             /\ pc' = "m_upload"
             /\ UNCHANGED <<idx, log, firestore>>
    /\ UNCHANGED <<video_url, cookies_path, video_id, gcs>>
    /\ UNCHANGED tmpdirs

\* lines 520-538: upload_to_gcs and verify_gcs_upload
RunUpload ==
    /\ pc = "m_upload"
    /\ \E fault \in {"none", "upload", "verify"} :
        LET written == [gcs EXCEPT !.transcripts[video_id] =
                            Str(TranscriptBlob(publish_date, ret.transcript.val))]
            passed == verify_gcs_upload(written.transcripts[video_id], publish_date,
                                        fault = "verify")
        IN  IF fault = "upload"
            THEN RunFailed("upload_to_gcs") /\ UNCHANGED gcs
            ELSE /\ gcs' = written
                 /\ IF passed
                    THEN /\ log' = Append(log, RunEntry("verify_gcs_upload", video_id, "",
                                                        Str("PASS")))
                         /\ pc' = "m_agent"
                         /\ UNCHANGED <<publish_date, idx, ret, firestore>>
                    ELSE RunFailed("verify_gcs_upload")
    /\ UNCHANGED <<video_url, cookies_path, video_id>>
    /\ UNCHANGED tmpdirs

\* lines 541-618: process_video and the parsing of its answer into the file and the
\* text to save
RunAgent ==
    /\ pc = "m_agent"
    /\ \E resp \in AgentResponses :
        IF IsRaise(resp)
        THEN RunFailed("process_video")
        ELSE /\ ret' = Value(SaveTarget(resp))
             /\ pc' = "m_append"
             /\ UNCHANGED <<publish_date, idx, log, firestore>>
    /\ UNCHANGED <<video_url, cookies_path, video_id, gcs>>
    /\ UNCHANGED tmpdirs

\* lines 659 and 667: append_to_anthology; main does not look at what it returns
RunAppend ==
    /\ pc = "m_append"
    /\ \E fault \in {"none", "read", "upload"} :
        LET target == ret.transcript
            a == append_to_anthology(gcs.anthology[target.file], target.file,
                                     video_id, publish_date, target.content, fault)
        IN  /\ gcs' = IF a.text = None THEN gcs
                      ELSE [gcs EXCEPT !.anthology[target.file] = a.text]
            /\ log' = Append(log, RunEntry("append_to_anthology", video_id, target.file,
                                           IF a.text # None THEN Str("appended")
                                           ELSE IF a.returned THEN Str("skipped")
                                           ELSE Str("error")))
    /\ pc' = "m_verify"
    /\ UNCHANGED <<video_url, cookies_path, video_id, publish_date, idx, ret, firestore>>
    /\ UNCHANGED tmpdirs

\* lines 669-678: verify_anthology_update on the file of the append
RunVerify ==
    /\ pc = "m_verify"
    /\ \E fault \in BOOLEAN :
        LET anthology_file == ret.transcript.file
            passed == verify_anthology_update(gcs.anthology[anthology_file], video_id,
                                              publish_date, fault)
        IN  IF passed
            THEN /\ log' = Append(log, RunEntry("verify_anthology_update", video_id,
                                                anthology_file, Str("PASS")))
                 /\ pc' = "m_complete"
                 /\ UNCHANGED <<publish_date, idx, ret, firestore>>
            ELSE RunFailed("verify_anthology_update")
    /\ UNCHANGED <<video_url, cookies_path, video_id, gcs>>
    /\ UNCHANGED tmpdirs

\* lines 694-716: the status COMPLETED and its verification; a failure of the write
\* is caught
RunComplete ==
    /\ pc = "m_complete"
    /\ \E write_fails \in BOOLEAN :
        /\ firestore = NoDb => ~write_fails
        /\ firestore' = IF write_fails THEN firestore
                        ELSE SetStatus(firestore, video_id, "COMPLETED")
        /\ log' = IF write_fails \/ firestore = NoDb THEN log
                  ELSE Append(log, RunEntry("firestore.set", video_id, "", Str("COMPLETED")))
    /\ pc' = "m_next"
    /\ idx' = idx + 1
    /\ publish_date' = ""
    /\ ret' = Pending
    /\ UNCHANGED <<video_url, cookies_path, video_id, gcs>>
    /\ UNCHANGED tmpdirs

NextRun ==
    \/ RunInvalid \/ RunSkipCompleted \/ RunStart \/ RunFetch \/ RunUpload
    \/ RunAgent \/ RunAppend \/ RunVerify \/ RunComplete

SpecRun == InitRun /\ [][NextRun]_vars

----------------------------------------------------------------------------
(* The manual strategy as the last iteration of get_transcript: client.py 68-85,
   164-191 *)

ManualDates == { "2024-01-05", "unknown" }

InitManual ==
    /\ pc = "f_idle"
    /\ video_url = "jNQXAC9IVRw"
    /\ cookies_path = None
    /\ video_id = "jNQXAC9IVRw"
    /\ publish_date \in ManualDates
    /\ idx = Len(strategies)
    /\ log = <<>>
    /\ ret = Pending
    /\ gcs = EmptyGcs
    /\ firestore = EmptyFirestore
    /\ tmpdirs = {}

\* line 76: content = strategy(), on what the list request and the track request do
ManualAttempt ==
    /\ pc = "f_idle"
    /\ \E listing \in TrackListings, payload \in PayloadResponses :
        log' = Append(log, LogEntry(strategies[idx].fn, None, "", None,
                                    [listing |-> listing, payload |-> payload],
                                    Invoke(strategies[idx], cookies_path,
                                           [listing |-> listing, payload |-> payload])))
    /\ pc' = "f_called"
    /\ UNCHANGED <<video_url, cookies_path, video_id, publish_date, idx, ret>>
    /\ UNCHANGED <<gcs, firestore>>
    /\ UNCHANGED tmpdirs

\* lines 77-79: the strategy gave text, which the call returns
ManualSucceeded ==
    /\ pc = "f_called"
    /\ ~IsRaise(log[1].out)
    /\ Succeeded(log[1].out)
    /\ ret' = SuccessResult(log[1].out, publish_date)
    /\ pc' = "f_done"
    /\ UNCHANGED <<video_url, cookies_path, video_id, publish_date, idx, log>>
    /\ UNCHANGED <<gcs, firestore>>
    /\ UNCHANGED tmpdirs

\* lines 80-85: the last strategy raised or gave nothing
ManualFailed ==
    /\ pc = "f_called"
    /\ IsRaise(log[1].out) \/ ~Succeeded(log[1].out)
    /\ ret' = IF IsRaise(log[1].out) /\ ~LadderCatches(log[1].out.val)
              THEN Raised(log[1].out.val)
              ELSE ExhaustedResult(publish_date)
    /\ idx' = idx + 1
    /\ pc' = "f_done"
    /\ UNCHANGED <<video_url, cookies_path, video_id, publish_date, log>>
    /\ UNCHANGED <<gcs, firestore>>
    /\ UNCHANGED tmpdirs

NextManual == ManualAttempt \/ ManualSucceeded \/ ManualFailed

SpecManual == InitManual /\ [][NextManual]_vars

----------------------------------------------------------------------------
(* The staging directory of a download-tool attempt: client.py 127-147,
   ingest_videos.py 135-165 and 173-203 *)

MaxAttempts == 3

\* what ydl.download may do inside the with block
StagingResponses == DownloadResponses \cup { Raise("Timeout") }

\* faulty variant: the directory is removed by a call at the end of the block, which
\* an exception passes by
TemporaryDirectory_exit_OnReturnOnly(dirs, name, outcome) ==
    IF IsRaise(outcome) THEN dirs ELSE dirs \ {name}

\* leaving "with tempfile.TemporaryDirectory() as tmpdir": __exit__ removes the
\* directory, whether the block returned, fell through or raised
TemporaryDirectory_exit(dirs, name, outcome) == dirs \ {name}

InitStaging ==
    /\ pc = "s_idle"
    /\ video_url = ""
    /\ cookies_path = None
    /\ video_id = "jNQXAC9IVRw"
    /\ publish_date = ""
    /\ idx = 0
    /\ log = <<>>
    /\ ret = Pending
    /\ gcs = EmptyGcs
    /\ firestore = EmptyFirestore
    /\ tmpdirs = {}

\* client.py 127, ingest_videos.py 135 and 173: the with statement makes the
\* directory of the attempt
StageEnter ==
    /\ pc = "s_idle"
    /\ idx < MaxAttempts
    /\ tmpdirs' = tmpdirs \cup {idx + 1}
    /\ idx' = idx + 1
    /\ pc' \in {"s_client_open", "s_ingest_open"}
    /\ UNCHANGED <<video_url, cookies_path, video_id, publish_date, log, ret,
                   gcs, firestore>>

\* client.py 128-147: the body of the block in _fetch_ytdlp
StageClientBody ==
    /\ pc = "s_client_open"
    /\ \E download \in StagingResponses : ret' = Value(_fetch_ytdlp(download))
    /\ pc' = "s_client_leaving"
    /\ UNCHANGED <<video_url, cookies_path, video_id, publish_date, idx, log,
                   gcs, firestore, tmpdirs>>

\* ingest_videos.py 136-165, 174-203: the body of the block in layers 2 and 3
StageIngestBody ==
    /\ pc = "s_ingest_open"
    /\ \E download \in StagingResponses : ret' = Value(IngestYtdlpLayer(download))
    /\ pc' = "s_ingest_leaving"
    /\ UNCHANGED <<video_url, cookies_path, video_id, publish_date, idx, log,
                   gcs, firestore, tmpdirs>>

\* the block is left: by return, by falling through or by the exception, which goes
\* on to the handler of the ladder
StageExit ==
    /\ pc \in {"s_client_leaving", "s_ingest_leaving"}
    /\ tmpdirs' = TemporaryDirectory_exit(tmpdirs, idx, ret.transcript)
    /\ log' = Append(log, LogEntry("_fetch_ytdlp", None,
                                   IF pc = "s_client_leaving" THEN "client" ELSE "ingest",
                                   None, None, ret.transcript))
    /\ ret' = Pending
    /\ pc' = "s_idle"
    /\ UNCHANGED <<video_url, cookies_path, video_id, publish_date, idx,
                   gcs, firestore>>

NextStaging == StageEnter \/ StageClientBody \/ StageIngestBody \/ StageExit

SpecStaging == InitStaging /\ [][NextStaging]_vars

----------------------------------------------------------------------------
(* Reading the history *)

DateOp == "_get_date_via_ytdlp"

\* an entry of a strategy (layer) as a whole, not of the date resolver or of one of
\* the direct requests inside ingest's layer 5
IsStrategyEntry(e) == e.op \in {"_fetch_api", "_fetch_ytdlp", "_fetch_manual"}

StrategyIndexes == { i \in 1..Len(log) : IsStrategyEntry(log[i]) }
DateIndexes == { i \in 1..Len(log) : log[i].op = DateOp }

\* the place of an invoked strategy in the documented priority order
PriorityOf(e) ==
    CASE e.op = "_fetch_api" /\ e.cookies = None -> 1
      [] e.op = "_fetch_ytdlp" /\ e.client = "android" -> 2
      [] e.op = "_fetch_ytdlp" /\ e.client = "web" -> 3
      [] e.op = "_fetch_api" /\ e.cookies # None -> 4
      [] e.op = "_fetch_manual" -> 5
      [] OTHER -> 0

InvokedPriorities == { PriorityOf(log[i]) : i \in StrategyIndexes }

\* a strategy attempt that did not yield non-empty text
Failed(e) == ~Truthy(e.out)

ValidReference == ~IsRaise(extract_video_id(video_url))

IsIsoDate(d) ==
    /\ Len(d) = 10
    /\ \A i \in {1, 2, 3, 4, 6, 7, 9, 10} : IsDigitChar(Char(d, i))
    /\ Char(d, 5) = "-"
    /\ Char(d, 8) = "-"

----------------------------------------------------------------------------
(* Claims *)

\* C1: as soon as a strategy returns non-empty text the ladder stops: that attempt is
\* the last operation of the call, the call has returned exactly its text, and a
\* returned transcript is always the text of the last strategy invoked.
C1_StopsAtFirstSuccess ==
    /\ \A i \in StrategyIndexes :
          Truthy(log[i].out) =>
              /\ i = Len(log)
              /\ pc = "done"
              /\ ret.tag = "returned"
              /\ ret.transcript = log[i].out
    /\ (ret.tag = "returned" /\ ret.transcript # None) =>
          /\ Len(log) > 0
          /\ IsStrategyEntry(log[Len(log)])
          /\ Truthy(ret.transcript)
          /\ ret.transcript = log[Len(log)].out

\* C1 witness: strategies 1-4 failed and strategy 5 succeeded; its text is returned
C1_Witness ==
    /\ pc = "done"
    /\ Len(log) = 6
    /\ PriorityOf(log[6]) = 5
    /\ \A i \in 2..5 : Failed(log[i])
    /\ ret.transcript = Str("manual text more")

\* C2: an exception raised by a strategy never reaches the caller: the call has not
\* raised, and after the raising attempt the ladder goes on (it is still in the loop,
\* or ran out of strategies and returned normally).
C2_StrategyExceptionsCaught ==
    /\ ret.tag # "raised"
    /\ \A i \in StrategyIndexes :
          (IsRaise(log[i].out) /\ i = Len(log)) =>
              \/ pc = "ladder"
              \/ (pc = "done" /\ idx > Len(strategies) /\ ret.tag = "returned")

\* C2 witness: the cookie-file load of strategy 4 raised, and the manual strategy ran
\* after it
C2_Witness ==
    \E i \in StrategyIndexes :
        /\ log[i].out = Raise("FileNotFoundError")
        /\ i < Len(log)
        /\ PriorityOf(log[Len(log)]) = 5
        /\ ret.tag = "returned"

\* C3 (as claimed): a malformed reference makes the call raise to its caller, with no
\* network call made.
C3_InvalidReferenceRaises ==
    (pc = "done" /\ ~ValidReference) => (ret.tag = "raised" /\ log = <<>>)

\* C3 (amended): a malformed reference makes the call return (None, "unknown")
\* normally, at once, with no network call made.
C3_InvalidReferenceReturnsUnknown ==
    (pc # "idle" /\ ~ValidReference) =>
        /\ pc = "done"
        /\ ret = Returned(None, "unknown")
        /\ log = <<>>

\* C3 witness: the call with "not a url" is over
C3_Witness == pc = "done" /\ video_url = "not a url"

\* C4: when every strategy failed or was skipped, the call returns normally with an
\* absent transcript and the date the resolver produced.
C4_ExhaustedKeepsDate ==
    (pc = "done" /\ ValidReference /\ \A i \in StrategyIndexes : Failed(log[i])) =>
        /\ ret.tag = "returned"
        /\ ret.transcript = None
        /\ ret.date = log[1].out.val

\* C4 witness: all strategies failed and the date returned is a valid one
C4_Witness ==
    /\ pc = "done"
    /\ Len(log) >= 5
    /\ \A i \in StrategyIndexes : Failed(log[i])
    /\ ret = Returned(None, "2024-01-05")

\* C5: the date resolver runs exactly once, first; the date returned is its result
\* whichever strategy succeeds or none; and an "unknown" date does not keep the
\* strategies from being attempted.
C5_DateResolvedOnceFirst ==
    /\ pc = "date" => log = <<>>
    /\ (pc \in {"ladder", "done"} /\ ValidReference) =>
          /\ DateIndexes = {1}
          /\ publish_date = log[1].out.val
          /\ ret.tag = "returned" => ret.date = log[1].out.val
          /\ pc = "done" => StrategyIndexes # {}

\* C5 witness: the date is unknown and a later strategy's transcript is returned
C5_Witness ==
    /\ pc = "done"
    /\ Len(log) >= 3
    /\ log[1].out = Str("unknown")
    /\ Truthy(ret.transcript)
    /\ ret.date = "unknown"

\* C6 (as claimed): with cookies_path None, neither strategy 3 (download tool, web
\* client) nor strategy 4 (library API with cookies) is invoked.
C6_NoCredentialSkipsAuthenticated ==
    (pc # "idle" /\ cookies_path = None) =>
        \A i \in StrategyIndexes :
            /\ ~(log[i].op = "_fetch_ytdlp" /\ log[i].client = "web")
            /\ ~(log[i].op = "_fetch_api" /\ i > 2)

\* C7 (as claimed): with a cookie path that does not exist, strategies 3 and 4 are
\* never invoked and the call does not raise.
C7_MissingCookieFileSkipsAuthenticated ==
    (pc # "idle" /\ Truthy(cookies_path) /\ ~PathExists(cookies_path.val)) =>
        /\ ret.tag # "raised"
        /\ \A i \in StrategyIndexes : PriorityOf(log[i]) \notin {3, 4}

\* a strategy a ladder may leave out: one that needs a credential, when no usable
\* cookie file was supplied
MayBeSkipped(q) == q \in {3, 4} /\ CookieFileOption(cookies_path) = None

\* C8: in get_transcript and in fetch_transcript_en alike, strategies are invoked in
\* the fixed priority order 1..5: priorities strictly increase along the call, every
\* attempt but the last one failed, and every strategy earlier in the order than an
\* invoked one was invoked too, unless skipped.
C8_FixedPriorityOrder ==
    /\ \A i \in StrategyIndexes : PriorityOf(log[i]) \in 1..5
    /\ \A i, j \in StrategyIndexes : i < j => PriorityOf(log[i]) < PriorityOf(log[j])
    /\ \A i \in StrategyIndexes : i < Len(log) => Failed(log[i])
    /\ \A i \in StrategyIndexes :
          \A q \in 1..(PriorityOf(log[i]) - 1) :
              q \in InvokedPriorities \/ MayBeSkipped(q)

\* C8 witness: all five strategies were invoked in one call
C8_Witness ==
    /\ Len(log) = 6
    /\ \A q \in 1..5 : PriorityOf(log[q + 1]) = q

\* the upstream answers the resolver must turn into "unknown"
Unresolvable(resp) ==
    \/ IsRaise(resp)
    \/ resp.tag = "info_none"
    \/ (resp.tag = "info" /\ resp.val.tag # "str")
    \/ (resp.tag = "info" /\ resp.val.tag = "str" /\ Len(resp.val.val) # 8)

\* C9: the date resolver never raises, and returns "unknown" when extraction raised
\* or timed out, the field is missing, or the field's length is not 8.
C9_DateResolverNeverRaises ==
    \A i \in DateIndexes :
        /\ log[i].out.tag = "str"
        /\ ret.tag # "raised"
        /\ Unresolvable(log[i].up) => log[i].out = Str("unknown")

\* C9 witness: the field had length 6, and the call went on to the ladder
C9_Witness ==
    /\ pc = "ladder"
    /\ log[1].up = Info(Str("202401"))
    /\ publish_date = "unknown"

\* C10 (as claimed): every publish date returned is "unknown" or of the shape
\* YYYY-MM-DD.
C10_DateIsIsoOrUnknown ==
    /\ \A i \in DateIndexes :
          log[i].out.tag = "str"
              /\ (log[i].out.val = "unknown" \/ IsIsoDate(log[i].out.val))
    /\ ret.tag = "returned" => (ret.date = "unknown" \/ IsIsoDate(ret.date))

\* exactly 11 characters over [A-Za-z0-9_-]
IsElevenIdChars(s) ==
    /\ Len(s) = 11
    /\ \A i \in 1..11 : \E j \in 1..Len(IdAlphabet) : SubSeq(s, i, i) = SubSeq(IdAlphabet, j, j)

RecognizedShape(raw) ==
    LET url == Strip(raw)
        follows(prefix) ==
            \E i \in 1..Len(url) :
                /\ MatchAt(url, i, prefix)
                /\ i + Len(prefix) + 10 <= Len(url)
                /\ IsElevenIdChars(SubSeq(url, i + Len(prefix), i + Len(prefix) + 10))
    IN  IsElevenIdChars(url) \/ follows("youtu.be/") \/ follows("v=") \/ follows("/embed/")

\* C12: extract_video_id raises ValueError for every input of no recognized shape, and
\* whatever it returns is exactly 11 characters over [A-Za-z0-9_-].
C12_UnrecognizedRaises ==
    pc = "x_done" =>
        /\ ~RecognizedShape(video_url) => ret = Raised("ValueError")
        /\ ret.tag = "value" =>
              ret.transcript.tag = "str" /\ IsElevenIdChars(ret.transcript.val)

\* C12 witness: "not a url" was refused
C12_Witness == pc = "x_done" /\ video_url = "not a url" /\ ret = Raised("ValueError")

\* the documented class of a track: 1 exact English authored, 2 exact English
\* recognized speech, 3 English variant authored, 4 English variant recognized
\* speech, 5 any other
TrackClass(t) ==
    LET lang == IF t.lang_code.tag = "str" THEN t.lang_code.val ELSE ""
        asr == (t.kind.tag = "str" /\ t.kind.val = "asr")
        variant == Len(lang) >= 2 /\ SubSeq(lang, 1, 2) = "en"
    IN  IF lang = "en" THEN (IF asr THEN 2 ELSE 1)
        ELSE IF variant THEN (IF asr THEN 4 ELSE 3)
        ELSE 5

\* the entries of the two rankings
RankIndexes == { i \in 1..Len(log) : log[i].op \in {"sort", "pick_track"} }

\* C13: whatever the listed tracks and their order, the track either ranking selects
\* is one of them and no listed track is of a better class: exact English authored,
\* then exact English recognized speech, then English variant authored, then English
\* variant recognized speech, then the others.
C13_BestTrackIsOfTheBestClass ==
    \A i \in RankIndexes :
        log[i].out.tag = "track" =>
            LET tracks == log[i].up.val IN
            /\ \E k \in 1..Len(tracks) : tracks[k] = log[i].out.val
            /\ \A k \in 1..Len(tracks) : TrackClass(log[i].out.val) <= TrackClass(tracks[k])

\* C13 witness: from en-US authored, en recognized speech and en authored, in this
\* order, the sort selected the en authored one
C13_Witness ==
    /\ pc = "t_done"
    /\ log[2].op = "sort"
    /\ log[2].up.val = <<Track(Str("d"), Str("en-US"), None),
                         Track(Str("c"), Str("en"), Str("asr")),
                         Track(Str("a"), Str("en"), None)>>
    /\ ret = Value([tag |-> "track", val |-> Track(Str("a"), Str("en"), None)])

\* the answers of the list request that must give an empty list
NoListing(listing) ==
    \/ IsRaise(listing)
    \/ (listing.tag = "http" /\ listing.status # 200)
    \/ (listing.tag = "http" /\ listing.body.kind \in {"blank", "malformed"})

\* C14: _list_tracks never raises, and returns an empty list on a network error, a
\* timeout, a status other than 200, an empty body and XML that does not parse.
C14_ListTracksNeverRaises ==
    \A i \in 1..Len(log) :
        log[i].op = "_list_tracks" =>
            /\ log[i].out.tag = "list"
            /\ NoListing(log[i].up) => log[i].out = TrackList(<<>>)

\* C14 witness: the body did not parse, and the ranking went on with an empty list
C14_Witness ==
    /\ pc = "t_done"
    /\ log[1].up = Http(200, MalformedBody)
    /\ log[1].out = TrackList(<<>>)
    /\ Len(log) = 2

\* C15: caption cleaning is idempotent: the cleaning function of either fetcher,
\* applied to the text it returned, returns that text unchanged.
C15_CleaningIsIdempotent ==
    pc = "c_done" =>
        /\ log[2].up = log[1].out
        /\ log[2].out = log[1].out
        /\ ret = Value(log[1].out)

\* C15 witness: a file with a header, a timing line and two text lines was cleaned to
\* "hello hi there", and cleaning that again gave the same
C15_Witness ==
    /\ pc = "c_done"
    /\ log[1].op = "client._read_and_clean_vtt"
    /\ log[1].up = Str("00:01.000 --> 00:02.000\nhello\n  hi there ")
    /\ log[1].out = Str("hello hi there")
    /\ log[2].out = Str("hello hi there")

\* the text after the first blank line of s ("" when there is none)
BodyOf(s) ==
    LET breaks == { i \in 1..Len(s) : MatchAt(s, i, "\n\n") } IN
    IF breaks = {} THEN "" ELSE SubSeq(s, Min(breaks) + 2, Len(s))

\* C16 (as claimed): yt_fetch returns "Date: <publish_date>", a blank line and the
\* transcript exactly when get_transcript obtained a non-empty transcript, the publish
\* date being YYYY-MM-DD or "unknown"; it returns None otherwise, and never a
\* formatted string with an empty body.
C16_FormattedExactlyOnSuccess ==
    pc = "y_done" =>
        LET got == log[Len(log)].up
            out == log[Len(log)].out
        IN  /\ ret = Value(out)
            /\ Truthy(got.transcript) =>
                  /\ out = Str("Date: " \o got.date \o "\n\n" \o got.transcript.val)
                  /\ (got.date = "unknown" \/ IsIsoDate(got.date))
            /\ ~Truthy(got.transcript) => out = None
            /\ out.tag = "str" => BodyOf(out.val) # ""

\* whether some theme file holds the marker of video v
MarkerInSomeThemeFile(anthology, v) ==
    \E i \in 1..Len(THEME_TO_FILENAME) :
        LET b == anthology[THEME_TO_FILENAME[i].filename] IN
        b.tag = "str" /\ Contains(b.val, "<!-- VIDEO_ID: " \o v \o " -->")

\* the uploads of the history that appended an entry for video v
AppendsOf(v) ==
    { i \in 1..Len(log) : log[i].op = "upload_from_string" /\ log[i].up.video_id = Str(v) }

\* a step that serves a request for a video whose marker some theme file holds
ServesMarkedVideo ==
    /\ pc = "u_serving"
    /\ ret'.tag = "served"
    /\ idx' = idx + 1
    /\ ret'.request.json.video_id.tag = "str"
    /\ MarkerInSomeThemeFile(gcs.anthology, ret'.request.json.video_id.val)

C18_AndroidCarriesNoCookie ==
    \A i \in StrategyIndexes :
        (log[i].op = "_fetch_ytdlp" /\ log[i].client = "android") => log[i].cred = None

\* C20 (as claimed): when every layer of fetch_transcript_en failed, it returns an
\* absent transcript together with the date its date helper resolved, not "unknown"
\* in place of a valid date.
C20_IngestExhaustedKeepsDate ==
    (pc = "i_done" /\ ret.tag = "returned" /\ ret.transcript = None) =>
        \A i \in DateIndexes : ret.date = log[i].out.val

\* the appends of the run that wrote an entry for video v
RunAppendsOf(v) ==
    { i \in 1..Len(log) :
        /\ log[i].op = "append_to_anthology"
        /\ log[i].up = Str(v)
        /\ log[i].out = Str("appended") }

\* C19 (as claimed): the append of the ingest run looks for the video's marker in all
\* theme files, so a video that has an entry in any theme file is never appended
\* again, also when the new run puts it under another theme file.
C19_IngestAppendsOncePerVideo ==
    \A v \in StoredVideos : Cardinality(RunAppendsOf(v)) <= 1

\* C21 (as claimed): a layer of fetch_transcript_en succeeds only with non-empty
\* text, so the function never returns the empty string as the transcript.
C21_IngestNeverReturnsEmptyText ==
    (pc = "i_done" /\ ret.tag = "returned") => ret.transcript # Str("")

\* the attempts of the strategy of priority q in the call
AttemptsOf(q) == { i \in StrategyIndexes : PriorityOf(log[i]) = q }

\* C22: within one get_transcript call each of the five strategies is invoked at most
\* once, and the ladder never retries or goes back: after an attempt the loop is at
\* the next strategy or the call has ended, and the position in the list never
\* decreases.
C22_EachStrategyAtMostOnce ==
    /\ [](/\ \A q \in 1..5 : Cardinality(AttemptsOf(q)) <= 1
          /\ Cardinality(StrategyIndexes) <= 5)
    /\ [][/\ idx' >= idx
          /\ (pc = "ladder" /\ log' # log) => (idx' = idx + 1 \/ pc' = "done")]_vars

\* C22 witness: a call that ran out of strategies after invoking each of the five once
C22_Witness ==
    /\ pc = "done"
    /\ ret = ExhaustedResult(publish_date)
    /\ \A q \in 1..5 : Cardinality(AttemptsOf(q)) = 1

\* the status Firestore holds for the video: None without a client or a document
StatusOf(registry, vid) == IF registry = NoDb THEN None ELSE registry[vid]

\* a step of the run in which fetch_transcript_en gave no text
FetchGaveNoText == pc = "m_fetch" /\ pc' # "m_upload"

\* a step of the run that passes over a listed video without processing it
SkipsVideo ==
    /\ pc = "m_next"
    /\ pc' = "m_next"
    /\ idx' = idx + 1
    /\ ~IsRaise(extract_video_id(video_url'))

\* a pass of the loop may take up video v now
MayProcess(v) == ENABLED (RunStart /\ video_id' = v)

ExposedTracks ==
    LET listing == log[1].up.listing IN
    IF ~IsRaise(listing) /\ listing.status = 200 /\ listing.body.kind = "xml"
    THEN listing.body.elems ELSE <<>>

\* C24 (as claimed): a transcript get_transcript returns comes from an English-family
\* track: when the video exposes only tracks of other languages, the manual strategy
\* returns no text of theirs.
C24_OnlyEnglishTracksReturned ==
    (/\ pc = "f_done"
     /\ Len(ExposedTracks) > 0
     /\ \A k \in 1..Len(ExposedTracks) : TrackClass(ExposedTracks[k]) = 5)
        => ret.transcript = None

\* C25: the staging directory of a download-tool attempt exists only during that
\* attempt: between attempts no staging directory exists, during an attempt only its
\* own, whatever the way the attempt ended (text, no caption file, exception).
C25_StagingDirScopedToAttempt ==
    /\ pc = "s_idle" => tmpdirs = {}
    /\ pc \in {"s_client_open", "s_client_leaving", "s_ingest_open", "s_ingest_leaving"}
          => tmpdirs = {idx}

\* C25 witness: three attempts ended, one with text, one without a caption file and
\* one by an exception of the download, and no directory is left
C25_Witness ==
    /\ pc = "s_idle"
    /\ Len(log) = 3
    /\ \E i \in 1..3 : Truthy(log[i].out)
    /\ \E i \in 1..3 : log[i].out = None
    /\ \E i \in 1..3 : log[i].out = Raise("DownloadError")
    /\ tmpdirs = {}

\* the four kinds of format marker, on a stripped line: a blank line, a line that
\* starts with the header word, a timing cue, a line of digits only
IsBlankLine(s) == s = ""
IsHeaderLine(s) == Len(s) >= 6 /\ SubSeq(s, 1, 6) = "WEBVTT"
IsTimingCue(s) == \E i \in 1..(Len(s) - 2) : SubSeq(s, i, i + 2) = "-->"
IsCueNumber(s) ==
    /\ s # ""
    /\ \A i \in 1..Len(s) : \E d \in 1..10 : SubSeq(s, i, i) = SubSeq("0123456789", d, d)

\* the text the cleaning of vtt is to give, with the lines joined by sep
TextLinesJoined(vtt, sep) ==
    LET raw == SplitOn(vtt, "\n")
        stripped == [k \in 1..Len(raw) |-> Strip(raw[k])]
        text(s) == ~(IsBlankLine(s) \/ IsHeaderLine(s) \/ IsTimingCue(s) \/ IsCueNumber(s))
    IN  Join(SelectSeq(stripped, text), sep)

\* C26: cleaning discards exactly the blank lines, the lines that start with WEBVTT,
\* the lines that contain "-->" and the lines of digits only, and keeps every other
\* line, stripped, in its order, joined by one space (client) or a newline (ingest).
C26_CleaningDiscardsExactlyMarkers ==
    \A i \in 1..Len(log) :
        /\ log[i].op = "client._read_and_clean_vtt" =>
              log[i].out = Str(TextLinesJoined(log[i].up.val, " "))
        /\ log[i].op = "ingest._read_and_clean_vtt" =>
              log[i].out = Str(TextLinesJoined(log[i].up.val, "\n"))

\* C26 witness: of a file with a header, cue numbers, timings, blank lines and three
\* text lines, the ingest cleaning kept the three text lines, stripped, in order
C26_Witness ==
    /\ pc = "c_cleaned"
    /\ log[1].op = "ingest._read_and_clean_vtt"
    /\ log[1].up = Str(VttFull)
    /\ log[1].out = Str("Kind: captions\nhello world\nagain")

\* the places in the listing of the tracks of the highest score
TopScored(tracks) ==
    { k \in 1..Len(tracks) : \A j \in 1..Len(tracks) : score(tracks[k]) >= score(tracks[j]) }

\* C27: when several listed tracks tie for the highest score, the manual strategy
\* selects the one the lister returned first among them.
C27_FirstListedOfTiedTracks ==
    \A i \in 1..Len(log) :
        (log[i].op = "sort" /\ log[i].out.tag = "track") =>
            log[i].out.val = log[i].up.val[Min(TopScored(log[i].up.val))]

\* C27 witness: two authored English tracks tie behind an English variant in the
\* listing, and the one listed first of the two was selected
C27_Witness ==
    /\ pc = "t_done"
    /\ log[2].op = "sort"
    /\ log[2].up.val = <<Track(Str("d"), Str("en-US"), None),
                         Track(Str("b"), Str("en"), None),
                         Track(Str("a"), Str("en"), None)>>
    /\ TopScored(log[2].up.val) = {2, 3}
    /\ ret = Value([tag |-> "track", val |-> Track(Str("b"), Str("en"), None)])

\* a step in which the strategy at hand timed out
StrategyTimedOut ==
    /\ pc = "ladder"
    /\ Len(log') = Len(log) + 1
    /\ log'[Len(log')].out = Raise("Timeout")

\* C28: every get_transcript call that has started eventually returns an outcome,
\* given that each external call eventually returns, fails or times out; a timeout
\* is the failure of the strategy at hand, after which the ladder is at the next
\* strategy.
C28_CallEventuallyReturns ==
    /\ (pc \in {"date", "ladder"}) ~> (pc = "done" /\ ret.tag = "returned")
    /\ [][StrategyTimedOut => (pc' = "ladder" /\ idx' = idx + 1 /\ ret' = ret)]_vars

\* C28 witness: a strategy timed out and the call returned
C28_Witness ==
    /\ pc = "done"
    /\ ret.tag = "returned"
    /\ \E i \in StrategyIndexes : log[i].out = Raise("Timeout")

\* a step that writes status COMPLETED for video v
WritesCompleted(v) ==
    /\ StatusOf(firestore', v) = Str("COMPLETED")
    /\ StatusOf(firestore, v) # Str("COMPLETED")

\* a step in which a stage of the pass failed
StageFailed ==
    /\ Len(log') = Len(log) + 1
    /\ log'[Len(log')].out = Str("FAILED")

\* the pass at hand has passed both verifications: they are the latest entries of
\* the history, around the append, and the stores hold what they looked for
BothVerified ==
    /\ Len(log) >= 3
    /\ log[Len(log) - 2] = RunEntry("verify_gcs_upload", video_id, "", Str("PASS"))
    /\ log[Len(log) - 1].op = "append_to_anthology"
    /\ log[Len(log) - 1].up = Str(video_id)
    /\ log[Len(log)] = RunEntry("verify_anthology_update", video_id,
                                log[Len(log) - 1].client, Str("PASS"))
    /\ gcs.transcripts[video_id] # None
    /\ StartsWith(gcs.transcripts[video_id].val,
                  "This video was published on " \o publish_date \o ".\n")
    /\ gcs.anthology[log[Len(log)].client] # None
    /\ Contains(gcs.anthology[log[Len(log)].client].val,
                "<!-- VIDEO_ID: " \o video_id \o " -->\nDate: " \o publish_date \o "\n")

ServesRequest ==
    /\ pc = "u_serving"
    /\ ret'.tag = "served"
    /\ idx' = idx + 1

\* a step of the updater that uploads the anthology file of its request with the
\* entry of the request's video in it
UploadsEntry ==
    /\ ServesRequest
    /\ Len(log') = Len(log) + 1
    /\ log'[Len(log')].op = "upload_from_string"
    /\ log'[Len(log')].up = ret'.request.json
    /\ LET file == log'[Len(log')].out.val
           vid == ret'.request.json.video_id.val
       IN  /\ file = FilenameOfTheme(ret'.request.json.theme.val)
           /\ gcs'.anthology[file] # None
           /\ gcs'.anthology[file] # gcs.anthology[file]
           /\ Contains(gcs'.anthology[file].val, "<!-- VIDEO_ID: " \o vid \o " -->")
           /\ ret'.resp = Response(200, "appended", vid, file)

\* C30: the updater writes status COMPLETED for a video only in a request whose
\* upload of the anthology file succeeded: never when the request is answered
\* skipped_duplicate, when it is refused (missing keys, unknown theme) or when a
\* storage call raised; and a request whose upload succeeded is answered "appended"
\* with the file updated, whether or not the Firestore write succeeded.
C30_CompletedOnlyAfterUpload ==
    /\ [][\A v \in StoredVideos :
            WritesCompleted(v) =>
                /\ UploadsEntry
                /\ ret'.request.json.video_id = Str(v)]_vars
    /\ [][(ServesRequest /\ ret'.resp.status # "appended") =>
            /\ firestore' = firestore
            /\ gcs' = gcs
            /\ log' = log]_vars
    /\ [][(ServesRequest /\ ret'.resp.status = "appended") =>
            /\ UploadsEntry
            /\ \/ firestore' = firestore
               \/ firestore' = [firestore EXCEPT
                                  ![ret'.resp.video_id] = Str("COMPLETED")]]_vars

\* C30 witness: a request was answered "appended" with its entry in the anthology
\* file while the Firestore write failed, so that the video has no status; and
\* another video got COMPLETED from a request that appended
C30_Witness ==
    /\ ret = Served(Request("POST", "anthologies",
                            Payload(Str("Core thesis: agents need memory."),
                                    Str("Uncategorized"), Str("jNQXAC9IVRw"),
                                    Str("2024-01-05"))),
                    Response(200, "appended", "jNQXAC9IVRw", "uncategorized.md"))
    /\ Contains(gcs.anthology["uncategorized.md"].val, "<!-- VIDEO_ID: jNQXAC9IVRw -->")
    /\ StatusOf(firestore, "jNQXAC9IVRw") = None
    /\ StatusOf(firestore, "pEsoqm0o3Dk") = Str("COMPLETED")
    /\ Cardinality(AppendsOf("pEsoqm0o3Dk")) = 1

====
